---- MODULE Spec2Model ----
(***************************************************************************)
(* A model of the embedded-JSON extraction and normalisation pipeline of   *)
(* the real-estate scrapers (compas/test.py, compas/compass.py,            *)
(* property/test.py, members_moodys.py).                                   *)
(*                                                                         *)
(* Python values are tagged pairs <<tag, payload>>:            *)
(*   none, bool, int, str (a sequence of symbols), list (a sequence of     *)
(*   values), dict (a sequence of [k, v] entries in insertion order, the   *)
(*   keys being str payloads).                                             *)
(* A text is a sequence of symbols.  The symbols the code looks at are     *)
(* single characters; a run of characters the code never looks into is one *)
(* symbol ("abc123", "Main St").                                           *)
(***************************************************************************)
EXTENDS Integers, Sequences, FiniteSets, TLC

VARIABLES
    pc,            \* position of the modelled call chain
    text,          \* the page text (html) given to the extractors
    start_marker,  \* extract_json_from_text: the marker argument
    json_str,      \* extract_json_from_text: the returned value
    initial_data,  \* extract_initial_data (compas/test.py): the returned value
    compass_data,  \* CompassParser.extract_initial_data: the returned value
    obj,           \* get_val / find_key: the tree argument
    path,          \* get_val: the dotted path argument
    default,       \* get_val: the default argument
    key,           \* find_key: the key argument
    result,        \* get_val / find_key: the returned value
    url,           \* extract_listing_data: the url argument
    dto,           \* extract_listing_data / parse_listing_from_api_data: the returned value
    listing_data,  \* parse_listing_from_api_data: the listing_data argument
    variant,       \* which batch runs: parse_listings_async (compas, property) or RwholmesParser.run
    concurrency,   \* the concurrency argument
    semaphore,     \* the semaphore's value: the permits that are free
    tasks,         \* the parse_listing coroutines of the batch, one per listing url
    parsed_listings,  \* the list the batch returns: the positions of the urls with a record
    agents,        \* extract_agents: the agents dict, in insertion order
    fragments,     \* extract_agents: the add_agent calls made so far
    urls,          \* CompassParser.run: the script text of each listing url's page
    visited,       \* CompassParser.run: how many urls the loop has been through
    results,       \* CompassParser.run: the records collected so far
    html_counter,  \* RwholmesParser.html_counter
    save_html_every,  \* RwholmesParser.save_html_every
    saved,         \* the values of html_counter at which a page was written to a file
    max_results,   \* get_listings_from_api: the max_results argument
    page,          \* get_listings_from_api: the page of the next request
    listings,      \* get_listings_from_api: the items of the answer received last
    listings_data, \* get_listings_from_api: the listings collected so far
    returned       \* get_listings_from_api: the returned list

textVars == <<text, start_marker, json_str, initial_data, compass_data>>
treeVars == <<obj, path, default, key, result>>

listingVars == <<url, dto, listing_data>>

batchVars == <<variant, concurrency, semaphore, tasks, parsed_listings>>

agentVars == <<agents, fragments>>

runVars == <<urls, visited, results>>

saveVars == <<html_counter, save_html_every, saved>>

pageVars == <<max_results, page, listings, listings_data, returned>>

vars == <<pc, textVars, treeVars, listingVars, batchVars, agentVars, runVars, saveVars, pageVars>>

----------------------------------------------------------------------------
(* Python values *)

PyNone == <<"none", 0>>
PyBool(b) == <<"bool", b>>
PyInt(n) == <<"int", n>>
PyStr(s) == <<"str", s>>
PyList(s) == <<"list", s>>
PyDict(s) == <<"dict", s>>

\* The type tag and the payload of a value.
Tag(x) == x[1]
Val(x) == x[2]

IsStr(x) == Tag(x) = "str"
IsDict(x) == Tag(x) = "dict"
IsList(x) == Tag(x) = "list"

\* Python truth value of a value (the `if x:` / `not x` / `x or y` tests).
Truthy(x) ==
    CASE Tag(x) = "none" -> FALSE
      [] Tag(x) = "bool" -> Val(x)
      [] Tag(x) = "int" -> Val(x) # 0
      [] OTHER -> Val(x) # <<>>

\* `key in d` for a dict payload d.
HasKey(d, name) == \E i \in 1..Len(d) : d[i].k = name

\* d[key] for a dict payload d that has the key.
Lookup(d, name) == d[CHOOSE i \in 1..Len(d) : d[i].k = name].v

\* d[key] = val: an existing key keeps its place, a new key goes last.
DictSet(d, name, val) ==
    IF HasKey(d, name)
    THEN [i \in 1..Len(d) |-> IF d[i].k = name THEN [k |-> name, v |-> val] ELSE d[i]]
    ELSE Append(d, [k |-> name, v |-> val])

----------------------------------------------------------------------------
(* str.find *)

RECURSIVE Find(_, _, _)
\* text.find(sub, from): 0-based index of the first occurrence at or after
\* from, -1 when there is none.
Find(s, sub, from) ==
    IF from + Len(sub) > Len(s) THEN -1
    ELSE IF SubSeq(s, from + 1, from + Len(sub)) = sub THEN from
    ELSE Find(s, sub, from + 1)

Whitespace == {" ", "\n"}

RECURSIVE SkipWhitespace(_, _)
\* while pos < len(text) and text[pos] in ' \t\n\r': pos += 1
SkipWhitespace(s, pos) ==
    IF pos < Len(s) /\ s[pos + 1] \in Whitespace
    THEN SkipWhitespace(s, pos + 1)
    ELSE pos

----------------------------------------------------------------------------
(* compas/test.py: extract_json_from_text *)

RECURSIVE ScanBrackets(_, _, _, _, _, _)
\* The for loop over range(start_pos, len(text)).
ScanBrackets(s, start_pos, i, bracket_count, in_string, escape_next) ==
    IF i >= Len(s) THEN PyNone
    ELSE CASE escape_next ->
                ScanBrackets(s, start_pos, i + 1, bracket_count, in_string, FALSE)
           [] ~escape_next /\ s[i + 1] = "\\" ->
                ScanBrackets(s, start_pos, i + 1, bracket_count, in_string, TRUE)
           [] ~escape_next /\ s[i + 1] = "\"" ->
                ScanBrackets(s, start_pos, i + 1, bracket_count, ~in_string, FALSE)
           [] ~escape_next /\ ~in_string /\ s[i + 1] = "{" ->
                ScanBrackets(s, start_pos, i + 1, bracket_count + 1, in_string, FALSE)
           [] ~escape_next /\ ~in_string /\ s[i + 1] = "}" /\ bracket_count - 1 = 0 ->
                PyStr(SubSeq(s, start_pos + 1, i + 1))
           [] ~escape_next /\ ~in_string /\ s[i + 1] = "}" /\ bracket_count - 1 # 0 ->
                ScanBrackets(s, start_pos, i + 1, bracket_count - 1, in_string, FALSE)
           [] OTHER ->
                ScanBrackets(s, start_pos, i + 1, bracket_count, in_string, FALSE)

\* The position the scan starts from: text.find('=', pos) + 1, whitespace skipped.
ObjectStart(s, marker) ==
    SkipWhitespace(s, Find(s, <<"=">>, Find(s, marker, 0)) + 1)

RECURSIVE ScanBracketsNoStrings(_, _, _, _)
\* A brace count that does not know about string literals.
ScanBracketsNoStrings(s, start_pos, i, bracket_count) ==
    IF i >= Len(s) THEN PyNone
    ELSE IF s[i + 1] = "{"
    THEN ScanBracketsNoStrings(s, start_pos, i + 1, bracket_count + 1)
    ELSE IF s[i + 1] = "}"
    THEN IF bracket_count - 1 = 0
         THEN PyStr(SubSeq(s, start_pos + 1, i + 1))
         ELSE ScanBracketsNoStrings(s, start_pos, i + 1, bracket_count - 1)
    ELSE ScanBracketsNoStrings(s, start_pos, i + 1, bracket_count)

\* extract_json_from_text with the string tracking left out.
extract_json_from_text_no_strings(s, marker) ==
    IF Find(s, marker, 0) = -1 THEN PyNone
    ELSE LET pos == ObjectStart(s, marker) IN
        IF pos >= Len(s) \/ s[pos + 1] # "{" THEN PyNone
        ELSE ScanBracketsNoStrings(s, pos, pos, 0)

\* extract_json_from_text returning the rest of the text when the object
\* is never closed.
extract_json_from_text_unclosed(s, marker) ==
    IF Find(s, marker, 0) = -1 THEN PyNone
    ELSE LET pos == ObjectStart(s, marker) IN
        IF pos >= Len(s) \/ s[pos + 1] # "{" THEN PyNone
        ELSE IF ScanBrackets(s, pos, pos, 0, FALSE, FALSE) = PyNone
             THEN PyStr(SubSeq(s, pos + 1, Len(s)))
             ELSE ScanBrackets(s, pos, pos, 0, FALSE, FALSE)

extract_json_from_text(s, marker) ==
    IF Find(s, marker, 0) = -1 THEN PyNone
    ELSE LET pos == ObjectStart(s, marker) IN
        IF pos >= Len(s) \/ s[pos + 1] # "{" THEN PyNone
        ELSE ScanBrackets(s, pos, pos, 0, FALSE, FALSE)

----------------------------------------------------------------------------
(* json.loads, as called by extract_initial_data: a recursive-descent JSON *)
(* parser over the symbols of the text.  A number is one symbol.           *)

NumberSyms == {"0", "1", "2", "5", "7", "8", "9", "10", "12", "14", "99", "62701"}

IntOf(sym) ==
    CASE sym = "0" -> 0
      [] sym = "1" -> 1
      [] sym = "2" -> 2
      [] sym = "5" -> 5
      [] sym = "7" -> 7
      [] sym = "8" -> 8
      [] sym = "9" -> 9
      [] sym = "10" -> 10
      [] sym = "12" -> 12
      [] sym = "14" -> 14
      [] sym = "99" -> 99
      [] sym = "62701" -> 62701

\* What a backslash escape inside a JSON string decodes to.
EscapeSyms == {"\"", "\\", "/", "n"}

Unescape(sym) == IF sym = "n" THEN "\n" ELSE sym

ParseFail == [ok |-> FALSE, val |-> PyNone, pos |-> 0]

ParseOk(val, pos) == [ok |-> TRUE, val |-> val, pos |-> pos]

RECURSIVE ParseStringBody(_, _, _)
\* The characters of a string literal from position i (after the opening
\* quote) to the closing quote; a raw control character or a bad escape is
\* a JSONDecodeError.
ParseStringBody(s, i, acc) ==
    IF i >= Len(s) THEN ParseFail
    ELSE LET char == s[i + 1] IN
        IF char = "\"" THEN ParseOk(PyStr(acc), i + 1)
        ELSE IF char = "\n" THEN ParseFail
        ELSE IF char = "\\"
        THEN IF i + 1 < Len(s) /\ s[i + 2] \in EscapeSyms
             THEN ParseStringBody(s, i + 2, Append(acc, Unescape(s[i + 2])))
             ELSE ParseFail
        ELSE ParseStringBody(s, i + 1, Append(acc, char))

RECURSIVE ParseValue(_, _)
RECURSIVE ParseMembers(_, _, _)
RECURSIVE ParseElements(_, _, _)

\* A JSON value starting exactly at position i.
ParseValue(s, i) ==
    IF i >= Len(s) THEN ParseFail
    ELSE LET char == s[i + 1] IN
        CASE char = "{" ->
                LET j == SkipWhitespace(s, i + 1) IN
                IF j < Len(s) /\ s[j + 1] = "}"
                THEN ParseOk(PyDict(<<>>), j + 1)
                ELSE ParseMembers(s, j, <<>>)
          [] char = "[" ->
                LET j == SkipWhitespace(s, i + 1) IN
                IF j < Len(s) /\ s[j + 1] = "]"
                THEN ParseOk(PyList(<<>>), j + 1)
                ELSE ParseElements(s, j, <<>>)
          [] char = "\"" -> ParseStringBody(s, i + 1, <<>>)
          [] char \in NumberSyms -> ParseOk(PyInt(IntOf(char)), i + 1)
          [] char = "true" -> ParseOk(PyBool(TRUE), i + 1)
          [] char = "false" -> ParseOk(PyBool(FALSE), i + 1)
          [] char = "null" -> ParseOk(PyNone, i + 1)
          [] OTHER -> ParseFail

\* "key": value pairs from position i up to the closing brace; a repeated
\* key keeps its first place and takes the last value.
ParseMembers(s, i, acc) ==
    IF i >= Len(s) \/ s[i + 1] # "\"" THEN ParseFail
    ELSE LET member == ParseStringBody(s, i + 1, <<>>) IN
        IF ~member.ok THEN ParseFail
        ELSE LET colon == SkipWhitespace(s, member.pos) IN
            IF colon >= Len(s) \/ s[colon + 1] # ":" THEN ParseFail
            ELSE LET val == ParseValue(s, SkipWhitespace(s, colon + 1)) IN
                IF ~val.ok THEN ParseFail
                ELSE LET next == SkipWhitespace(s, val.pos)
                         dict == DictSet(acc, Val(member.val), val.val)
                     IN IF next >= Len(s) THEN ParseFail
                        ELSE IF s[next + 1] = "}" THEN ParseOk(PyDict(dict), next + 1)
                        ELSE IF s[next + 1] = ","
                        THEN ParseMembers(s, SkipWhitespace(s, next + 1), dict)
                        ELSE ParseFail

\* Array elements from position i up to the closing bracket.
ParseElements(s, i, acc) ==
    LET val == ParseValue(s, i) IN
    IF ~val.ok THEN ParseFail
    ELSE LET next == SkipWhitespace(s, val.pos)
             list == Append(acc, val.val)
         IN IF next >= Len(s) THEN ParseFail
            ELSE IF s[next + 1] = "]" THEN ParseOk(PyList(list), next + 1)
            ELSE IF s[next + 1] = ","
            THEN ParseElements(s, SkipWhitespace(s, next + 1), list)
            ELSE ParseFail

\* json.loads(s): one value, whitespace around it, nothing else.  The
\* result is not ok where json.loads raises JSONDecodeError.
json_loads(s) ==
    LET val == ParseValue(s, SkipWhitespace(s, 0)) IN
    IF val.ok /\ SkipWhitespace(s, val.pos) = Len(s) THEN val ELSE ParseFail

----------------------------------------------------------------------------
(* compas/test.py: extract_initial_data *)

Markers == << <<"__INITIAL_DATA__">>, <<"window.", "__INITIAL_DATA__">> >>

RECURSIVE TryMarkers(_, _)
\* for marker in markers: the first marker whose extracted text is
\* non-empty and parses decides; a JSONDecodeError goes on to the next.
TryMarkers(html, m) ==
    IF m > Len(Markers) THEN PyNone
    ELSE LET js == extract_json_from_text(html, Markers[m]) IN
        IF Truthy(js) /\ json_loads(Val(js)).ok
        THEN json_loads(Val(js)).val
        ELSE TryMarkers(html, m + 1)

extract_initial_data(html) == TryMarkers(html, 1)

----------------------------------------------------------------------------
(* str.split(sep) *)

RECURSIVE Split(_, _)
\* s.split(sep) for a one-symbol separator: '' splits into [''], and two
\* separators in a row give an empty segment.
Split(s, sep) ==
    LET i == Find(s, <<sep>>, 0) IN
    IF i = -1 THEN <<s>>
    ELSE <<SubSeq(s, 1, i)>> \o Split(SubSeq(s, i + 2, Len(s)), sep)

----------------------------------------------------------------------------
(* compas/compass.py: get_val, the nested path resolver of _map_to_dto and *)
(* _map_to_dto_from_api (the two definitions are the same code)            *)

RECURSIVE GetValWalk(_, _, _, _)
\* for key in path.split('.'): descend while obj is a dict holding key.
GetValWalk(tree, keys, i, dflt) ==
    IF i > Len(keys) THEN tree
    ELSE IF IsDict(tree) /\ HasKey(Val(tree), keys[i])
    THEN GetValWalk(Lookup(Val(tree), keys[i]), keys, i + 1, dflt)
    ELSE dflt

\* get_val that gives None, not the default, for a path that does not resolve.
get_val_none(tree, dotted, dflt) == GetValWalk(tree, Split(dotted, "."), 1, PyNone)

get_val(tree, dotted, dflt) == GetValWalk(tree, Split(dotted, "."), 1, dflt)

----------------------------------------------------------------------------
(* compas/compass.py: find_key, the deep key finder of                     *)
(* extract_listings_from_initial_data                                      *)

RECURSIVE find_key(_, _)
RECURSIVE FindKeyIn(_, _, _)

\* The two for loops: the first truthy result of the recursive calls over
\* the values of a dict (children are the values) or the items of a list.
FindKeyIn(children, i, name) ==
    IF i > Len(children) THEN PyNone
    ELSE LET res == find_key(children[i], name) IN
        IF Truthy(res) THEN res ELSE FindKeyIn(children, i + 1, name)

find_key(tree, name) ==
    IF IsDict(tree)
    THEN IF HasKey(Val(tree), name)
         THEN Lookup(Val(tree), name)
         ELSE FindKeyIn([i \in 1..Len(Val(tree)) |-> Val(tree)[i].v], 1, name)
    ELSE IF IsList(tree)
    THEN FindKeyIn(Val(tree), 1, name)
    ELSE PyNone

----------------------------------------------------------------------------
(* compas/compass.py: CompassParser.extract_initial_data, the regular      *)
(* expressions  <marker>\s*=\s*({.+?});  under re.DOTALL                   *)

\* s.strip()
RECURSIVE Strip(_)
Strip(s) ==
    IF s # <<>> /\ Head(s) \in Whitespace THEN Strip(Tail(s))
    ELSE IF s # <<>> /\ s[Len(s)] \in Whitespace THEN Strip(SubSeq(s, 1, Len(s) - 1))
    ELSE s

NoMatch == [found |-> FALSE, group |-> <<>>, end |-> 0]

\* The match of the pattern at position p, if any: the marker, '=' between
\* optional whitespace, '{', then as few characters as possible (at least
\* one) up to the first '}' that a ';' follows.
MatchAt(s, marker, p) ==
    IF p + Len(marker) > Len(s) \/ SubSeq(s, p + 1, p + Len(marker)) # marker
    THEN NoMatch
    ELSE LET eq == SkipWhitespace(s, p + Len(marker)) IN
        IF eq >= Len(s) \/ s[eq + 1] # "=" THEN NoMatch
        ELSE LET open == SkipWhitespace(s, eq + 1) IN
            IF open >= Len(s) \/ s[open + 1] # "{" THEN NoMatch
            ELSE LET close == Find(s, <<"}", ";">>, open + 2) IN
                IF close = -1 THEN NoMatch
                ELSE [found |-> TRUE,
                      group |-> SubSeq(s, open + 1, close + 1),
                      end |-> close + 2]

RECURSIVE NextMatch(_, _, _)
\* re.finditer: the leftmost match starting at or after position from.
NextMatch(s, marker, from) ==
    IF from >= Len(s) THEN NoMatch
    ELSE IF MatchAt(s, marker, from).found THEN MatchAt(s, marker, from)
    ELSE NextMatch(s, marker, from + 1)

RECURSIVE TryMatches(_, _, _)
\* for match in matches: the first group that parses to a non-empty dict.
TryMatches(s, marker, from) ==
    LET m == NextMatch(s, marker, from) IN
    IF ~m.found THEN PyNone
    ELSE LET data == json_loads(Strip(m.group)) IN
        IF data.ok /\ IsDict(data.val) /\ Len(Val(data.val)) > 0
        THEN data.val
        ELSE TryMatches(s, marker, m.end)

Patterns == << <<"window.", "__INITIAL_DATA__">>, <<"__INITIAL_DATA__">> >>

RECURSIVE TryPatterns(_, _)
\* for pattern in patterns
TryPatterns(script_text, n) ==
    IF n > Len(Patterns) THEN PyNone
    ELSE LET data == TryMatches(script_text, Patterns[n], 0) IN
        IF Tag(data) # "none" THEN data ELSE TryPatterns(script_text, n + 1)

\* The page is one script element whose text is script_text.
CompassParser_extract_initial_data(script_text) ==
    IF script_text = <<>> THEN PyNone ELSE TryPatterns(script_text, 1)

----------------------------------------------------------------------------
(* Python string operations on symbol sequences                            *)

SymOf(n) ==
    CASE n = 0 -> "0"
      [] n = 1 -> "1"
      [] n = 2 -> "2"
      [] n = 5 -> "5"
      [] n = 7 -> "7"
      [] n = 8 -> "8"
      [] n = 9 -> "9"
      [] n = 10 -> "10"
      [] n = 12 -> "12"
      [] n = 14 -> "14"
      [] n = 99 -> "99"
      [] n = 62701 -> "62701"

\* str(x) and the {x} of an f-string.
Format(x) ==
    CASE Tag(x) = "str" -> Val(x)
      [] Tag(x) = "int" -> <<SymOf(Val(x))>>
      [] Tag(x) = "bool" -> IF Val(x) THEN <<"True">> ELSE <<"False">>
      [] Tag(x) = "none" -> <<"None">>
      [] Tag(x) = "list" -> <<"[...]">>
      [] Tag(x) = "dict" -> <<"{...}">>

RECURSIVE Replace(_, _, _)
\* s.replace(old, new)
Replace(s, old, new) ==
    IF Len(s) < Len(old) THEN s
    ELSE IF SubSeq(s, 1, Len(old)) = old
    THEN new \o Replace(SubSeq(s, Len(old) + 1, Len(s)), old, new)
    ELSE <<Head(s)>> \o Replace(Tail(s), old, new)

\* s.startswith(prefix)
StartsWith(s, prefix) == Len(s) >= Len(prefix) /\ SubSeq(s, 1, Len(prefix)) = prefix

RECURSIVE Join(_, _)
\* sep.join(parts)
Join(parts, sep) ==
    IF parts = <<>> THEN <<>>
    ELSE IF Len(parts) = 1 THEN parts[1]
    ELSE parts[1] \o sep \o Join(Tail(parts), sep)

\* d.get(name, dflt) for a dict payload d.
Get(d, name, dflt) == IF HasKey(d, <<name>>) THEN Lookup(d, <<name>>) ELSE dflt

\* x == n for an int n (True == 1 and False == 0 in Python).
EqualsInt(x, n) ==
    \/ Tag(x) = "int" /\ Val(x) = n
    \/ Tag(x) = "bool" /\ n \in {0, 1} /\ Val(x) = (n = 1)

\* The outcome of an expression that raised.
Raised == <<"raised", 0>>
IsRaised(x) == Tag(x) = "raised"

\* Whether `name in x` can be evaluated (else TypeError), and its value.
CanContain(x) == Tag(x) \in {"dict", "list", "str"}
Member(x, name) ==
    CASE Tag(x) = "dict" -> HasKey(Val(x), <<name>>)
      [] Tag(x) = "list" -> \E i \in 1..Len(Val(x)) : Val(x)[i] = PyStr(<<name>>)
      [] Tag(x) = "str" -> Find(Val(x), <<name>>, 0) # -1
      [] OTHER -> FALSE

\* int(s) succeeds on a run of decimal digits (the generated values carry
\* no sign, underscore or inner blank).
Digits == {"0", "1", "2", "3", "4", "5", "6", "7", "8", "9"}
IsInt(s) == s # <<>> /\ \A i \in 1..Len(s) : s[i] \in Digits

RECURSIVE Canonical(_)
\* The decimal digits of int(s): no leading zeros.
Canonical(s) == IF Len(s) > 1 /\ Head(s) = "0" THEN Canonical(Tail(s)) ELSE s

RECURSIVE Thousands(_)
\* The ',' format of an int given by its digits.
Thousands(ds) ==
    IF Len(ds) <= 3 THEN ds
    ELSE Thousands(SubSeq(ds, 1, Len(ds) - 3)) \o <<",">> \o SubSeq(ds, Len(ds) - 2, Len(ds))

\* The decimal digits of a natural number.
DigitSeq == <<"0", "1", "2", "3", "4", "5", "6", "7", "8", "9">>

RECURSIVE DigitsOf(_)
DigitsOf(n) ==
    IF n < 10 THEN <<DigitSeq[n + 1]>>
    ELSE DigitsOf(n \div 10) \o <<DigitSeq[(n % 10) + 1]>>

\* compas/test.py line 14
BASE_URL == <<"https:", "/", "/", "www.compass.com">>

\* A URL left as the page gives it.
AbsoluteAsGiven(u) == u

\* A URL made absolute: '//...' gets the scheme, '/...' the base URL.
Absolute(u) ==
    IF StartsWith(u, <<"/", "/">>) THEN <<"https:">> \o u
    ELSE IF StartsWith(u, <<"/">>) THEN BASE_URL \o u
    ELSE u

----------------------------------------------------------------------------
(* compas/test.py: extract_listing_data.  A field the code never sets on  *)
(* the generated listings (coordinates, lot size, description, property    *)
(* type, year, dates, MLS number) is left out of the record.               *)

\* lines 677-682.  Where initial_data or props is no dict the membership
\* test is false or raises, and the function returns None either way.
FindListing(data) ==
    IF ~IsDict(data) \/ ~HasKey(Val(data), <<"props">>) THEN PyNone
    ELSE LET props == Lookup(Val(data), <<"props">>) IN
        IF ~IsDict(props) \/ ~HasKey(Val(props), <<"listingRelation">>) THEN PyNone
        ELSE LET relation == Lookup(Val(props), <<"listingRelation">>) IN
            IF IsDict(relation) THEN Get(Val(relation), "listing", PyNone) ELSE Raised

\* lines 688-692
ListingId(listing, fixed_url) ==
    LET sha == Get(listing, "listingIdSHA", PyStr(<<>>))
        compass == Get(listing, "compassPropertyId", PyStr(<<>>))
        feed == Get(listing, "feedListingId", PyStr(<<>>))
        first == IF Truthy(sha) THEN sha ELSE IF Truthy(compass) THEN compass ELSE feed
        parts == Split(fixed_url, "/")
        id == IF Truthy(first) THEN first
              ELSE IF Find(fixed_url, <<"/">>, 0) # -1
              THEN PyStr(parts[Len(parts) - 1])
              ELSE PyStr(fixed_url)
    IN IF Truthy(id) THEN PyStr(Format(id)) ELSE PyStr(<<"unknown">>)

\* address += suffix
PlusStr(address, suffix) ==
    CASE Tag(address) = "str" -> PyStr(Val(address) \o suffix)
      [] Tag(address) = "list" ->
            PyList(Val(address) \o [i \in 1..Len(suffix) |-> PyStr(<<suffix[i]>>)])
      [] OTHER -> Raised

\* lines 696-715: the address before the fallback of line 1008.
AssembledAddress(location) ==
    LET pretty == Get(location, "prettyAddress", PyStr(<<>>))
        has(name) == Truthy(Get(location, name, PyNone))
        unit == PyStr(Format(Get(location, "unitType", PyStr(<<"Unit">>)))
                      \o <<" ">> \o Format(Get(location, "unitNumber", PyNone)))
        parts == (IF has("streetNumber") THEN <<Lookup(location, <<"streetNumber">>)>> ELSE <<>>)
                 \o (IF has("street") THEN <<Lookup(location, <<"street">>)>> ELSE <<>>)
                 \o (IF has("streetType") THEN <<Lookup(location, <<"streetType">>)>> ELSE <<>>)
                 \o (IF has("unitNumber") THEN <<unit>> ELSE <<>>)
        joined == IF parts = <<>> THEN pretty
                  ELSE IF \A i \in 1..Len(parts) : IsStr(parts[i])
                  THEN PyStr(Join([i \in 1..Len(parts) |-> Val(parts[i])], <<",", " ">>))
                  ELSE Raised
        withCity == IF IsRaised(joined) \/ ~has("city") THEN joined
                    ELSE PlusStr(joined, <<",", " ">> \o Format(Lookup(location, <<"city">>)))
        withState == IF IsRaised(withCity) \/ ~has("state") THEN withCity
                     ELSE PlusStr(withCity, <<" ">> \o Format(Lookup(location, <<"state">>)))
        withZip == IF IsRaised(withState) \/ ~has("zipCode") THEN withState
                   ELSE PlusStr(withState, <<" ">> \o Format(Lookup(location, <<"zipCode">>)))
    IN IF Truthy(pretty) THEN pretty ELSE withZip

\* line 1008 without its fallback.
AddressFieldNoFallback(address) == address

\* line 1008: address if address else "Address not found"
AddressField(address) ==
    IF Truthy(address) THEN address ELSE PyStr(<<"Address not found">>)

StatusMap == {0, 9, 12, 14, 10, 8}

StatusLabel(code) ==
    CASE code \in {0, 9, 12} -> <<"Active">>
      [] code = 14 -> <<"Coming Soon">>
      [] code = 10 -> <<"Sold">>
      [] code = 8 -> <<"Contract Signed">>

\* lines 727-737
ListingStatus(listing) ==
    LET localized == Get(listing, "localizedStatus", PyStr(<<>>))
        code == Get(listing, "status", PyNone)
    IN IF Truthy(localized) \/ ~HasKey(listing, <<"status">>) THEN localized
       ELSE IF Tag(code) \in {"list", "dict"} THEN Raised
       ELSE IF Tag(code) = "int" /\ Val(code) \in StatusMap THEN PyStr(StatusLabel(Val(code)))
       ELSE IF code = PyBool(FALSE) THEN PyStr(StatusLabel(0))
       ELSE PyStr(<<"Status ">> \o Format(code))

\* lines 742-744: price_data.get('formatted', ''), PyNone without a price.
PriceFormatted(listing) ==
    IF ~HasKey(listing, <<"price">>) THEN PyNone
    ELSE IF IsDict(Lookup(listing, <<"price">>))
    THEN Get(Val(Lookup(listing, <<"price">>)), "formatted", PyStr(<<>>))
    ELSE Raised

\* What iterating over listing['media'] gives: the items, or Raised.  An
\* empty str or dict iterates over nothing; a non-empty one gives str
\* items, on which .get raises.
MediaItems(listing) ==
    LET media == Get(listing, "media", PyList(<<>>)) IN
    IF Tag(media) \in {"list", "str", "dict"}
    THEN IF Tag(media) = "list" THEN media
         ELSE IF Val(media) = <<>> THEN PyList(<<>>) ELSE Raised
    ELSE Raised

RECURSIVE Photos(_, _, _)
\* lines 868-875
Photos(items, i, acc) ==
    IF i > Len(items) THEN PyList(acc)
    ELSE IF ~IsDict(items[i]) THEN Raised
    ELSE LET media == Val(items[i]) IN
        IF EqualsInt(Get(media, "category", PyInt(0)), 0) /\ HasKey(media, <<"originalUrl">>)
        THEN IF IsStr(Lookup(media, <<"originalUrl">>))
             THEN Photos(items, i + 1,
                         Append(acc, PyStr(Absolute(Val(Lookup(media, <<"originalUrl">>))))))
             ELSE Raised
        ELSE Photos(items, i + 1, acc)

RECURSIVE Brochure(_, _)
\* lines 880-888
Brochure(items, i) ==
    IF i > Len(items) THEN PyNone
    ELSE IF ~IsDict(items[i]) THEN Raised
    ELSE LET original_url == Get(Val(items[i]), "originalUrl", PyStr(<<>>)) IN
        IF ~Truthy(original_url) THEN Brochure(items, i + 1)
        ELSE IF ~IsStr(original_url) THEN Raised
        ELSE IF Val(original_url)[Len(Val(original_url))] = ".pdf"
        THEN PyStr(Absolute(Val(original_url)))
        ELSE Brochure(items, i + 1)

\* lines 751-757: size_str out of listing['size'], or Raised.  The ','
\* format is defined for numbers only.
ListingSize(listing) ==
    IF ~HasKey(listing, <<"size">>) THEN PyNone
    ELSE IF ~IsDict(Lookup(listing, <<"size">>)) THEN Raised
    ELSE LET square_feet == Get(Val(Lookup(listing, <<"size">>)), "squareFeet", PyInt(0))
         IN IF ~Truthy(square_feet) THEN PyNone
            ELSE IF Tag(square_feet) = "int"
            THEN PyStr(Thousands(DigitsOf(Val(square_feet))) \o <<" sqft">>)
            ELSE IF Tag(square_feet) = "bool" THEN PyStr(<<"1", " sqft">>)
            ELSE Raised

\* Whether iterating over detailed_info['listingDetails'] as lines 764-778
\* and 794-811 do raises: every group is asked for 'subCategories' with
\* `in`.  The generated groups have none, so the loops find no size and no
\* lot size.
GroupsRaise(groups) ==
    CASE Tag(groups) = "list" -> \E i \in 1..Len(Val(groups)) : ~CanContain(Val(groups)[i])
      [] Tag(groups) \in {"dict", "str"} -> FALSE
      [] OTHER -> TRUE

\* Whether iterating over detailed_info['keyDetails'] as lines 785-791,
\* 944-952 and 984-987 do raises: every item is asked for its 'key' with
\* .get, and the key is lower-cased.  The generated keys name no lot size,
\* year or days on market.
KeyDetailsRaise(key_details) ==
    CASE Tag(key_details) = "list" ->
            \E i \in 1..Len(Val(key_details)) :
                \/ ~IsDict(Val(key_details)[i])
                \/ ~IsStr(Get(Val(Val(key_details)[i]), "key", PyStr(<<>>)))
      [] Tag(key_details) \in {"dict", "str"} -> Val(key_details) # <<>>
      [] OTHER -> TRUE

\* Whether one of the passes over listing['detailedInfo'] raises.
DetailedInfoRaises(listing) ==
    /\ HasKey(listing, <<"detailedInfo">>)
    /\ LET detailed_info == Lookup(listing, <<"detailedInfo">>) IN
          \/ ~CanContain(detailed_info)
          \/ /\ Member(detailed_info, "keyDetails")
             /\ (~IsDict(detailed_info) \/ KeyDetailsRaise(Lookup(Val(detailed_info), <<"keyDetails">>)))
          \/ /\ Member(detailed_info, "listingDetails")
             /\ (~IsDict(detailed_info) \/ GroupsRaise(Lookup(Val(detailed_info), <<"listingDetails">>)))

RECURSIVE DetailsOfItems(_, _, _)
\* lines 841-848: the items of a list from position idx + 1 on, keyed by
\* their 'name' or by 'item_{idx}'.  Raised stands for a name that cannot
\* be a key of Dict[str, Any]: unhashable, or refused by DbDTO.
DetailsOfItems(items, idx, acc) ==
    IF idx >= Len(items) THEN PyDict(acc)
    ELSE LET item == items[idx + 1]
             item_key == IF IsDict(item)
                         THEN Get(Val(item), "name", PyStr(<<"item_", SymOf(idx)>>))
                         ELSE PyStr(<<"item_", SymOf(idx)>>)
         IN IF ~IsStr(item_key) THEN Raised
            ELSE DetailsOfItems(items, idx + 1, DictSet(acc, Val(item_key), item))

\* A mapping wrapped as if it were one item of a list.
DetailsOfMappingWrapped(details_data) == DetailsOfItems(<<details_data>>, 0, <<>>)

\* lines 849-850: a mapping is taken as it is.
DetailsOfMapping(details_data) == details_data

\* lines 838-850 (and 853-863 for keyDetails)
ConvertDetails(details_data) ==
    IF IsList(details_data) THEN DetailsOfItems(Val(details_data), 0, <<>>)
    ELSE IF IsDict(details_data) THEN DetailsOfMapping(details_data)
    ELSE PyNone

\* lines 833-863, for a detailedInfo the passes above went through.
ListingDetails(listing) ==
    IF ~HasKey(listing, <<"detailedInfo">>) THEN PyNone
    ELSE LET detailed_info == Lookup(listing, <<"detailedInfo">>) IN
        IF Member(detailed_info, "listingDetails")
        THEN ConvertDetails(Lookup(Val(detailed_info), <<"listingDetails">>))
        ELSE IF Member(detailed_info, "keyDetails")
        THEN ConvertDetails(Lookup(Val(detailed_info), <<"keyDetails">>))
        ELSE PyNone

\* pydantic's check of a field: str, Optional[str], Optional[List[str]].
ValidStr(x) == IsStr(x)
ValidOptStr(x) == IsStr(x) \/ Tag(x) = "none"
ValidOptStrList(x) ==
    \/ Tag(x) = "none"
    \/ IsList(x) /\ \A i \in 1..Len(Val(x)) : IsStr(Val(x)[i])

\* pydantic's EmailStr: one '@' with something on both sides.
ValidEmail(s) ==
    /\ Len(s) >= 3
    /\ \E i \in 2..(Len(s) - 1) : s[i] = "@" /\ \A j \in 1..Len(s) : s[j] = "@" => j = i

\* lines 920-928: agents_list.append(agent)
AgentOfContact(fields, acc) == Append(acc, fields)

RECURSIVE Agents(_, _, _)
\* lines 902-928: the loop over listing['fullContacts'] from contact i on.
\* Raised where a method is called on a value that has none, or AgentData
\* refuses a field.
Agents(contacts, i, acc) ==
    IF i > Len(contacts) THEN PyList(acc)
    ELSE IF ~IsDict(contacts[i]) THEN Raised
    ELSE LET contact == Val(contacts[i])
             profile_url == Get(contact, "websiteURL", PyStr(<<>>))
             email == Get(contact, "email", PyNone)
             photo_url == Get(contact, "profileImageURL", PyNone)
             fields == [name |-> Get(contact, "contactName", PyNone),
                        license |-> Get(contact, "licenseNum", PyNone),
                        phone_primary |-> Get(contact, "phone", PyNone),
                        email |-> IF ~Truthy(email) \/ Strip(Val(email)) = <<>> THEN PyNone ELSE email,
                        photo_url |-> IF Truthy(photo_url) THEN PyStr(Absolute(Val(photo_url)))
                                      ELSE photo_url,
                        office_name |-> Get(contact, "company", PyNone)]
         IN IF \/ ~IsStr(profile_url)
               \/ Truthy(email) /\ ~IsStr(email)
               \/ Truthy(photo_url) /\ ~IsStr(photo_url)
            THEN Raised
            ELSE IF \/ ~ValidOptStr(fields.name) \/ ~ValidOptStr(fields.license)
                    \/ ~ValidOptStr(fields.phone_primary) \/ ~ValidOptStr(fields.photo_url)
                    \/ ~ValidOptStr(fields.office_name)
                    \/ IsStr(fields.email) /\ ~ValidEmail(Val(fields.email))
            THEN Raised
            ELSE Agents(contacts, i + 1, AgentOfContact(fields, acc))

\* What iterating over listing['fullContacts'] gives, or Raised.
FullContacts(listing) ==
    LET contacts == Get(listing, "fullContacts", PyList(<<>>)) IN
    IF IsList(contacts) THEN contacts
    ELSE IF Tag(contacts) \in {"str", "dict"} /\ Val(contacts) = <<>> THEN PyList(<<>>)
    ELSE Raised

\* DbDTO(...), lines 1002-1031: the record, or Raised on a ValidationError.
DbDTO(f) ==
    IF /\ ValidStr(f.source_name) /\ ValidStr(f.listing_id) /\ ValidStr(f.listing_link)
       /\ ValidStr(f.address)
       /\ ValidOptStr(f.listing_type) /\ ValidOptStr(f.listing_status)
       /\ ValidOptStr(f.building_number) /\ ValidOptStr(f.street_name)
       /\ ValidOptStr(f.unit_number) /\ ValidOptStr(f.city) /\ ValidOptStr(f.state)
       /\ ValidOptStr(f.zipcode)
       /\ ValidOptStr(f.sale_price) /\ ValidOptStr(f.lease_price) /\ ValidOptStr(f.size)
       /\ ValidOptStrList(f.photos) /\ ValidOptStr(f.brochure_pdf)
       /\ ("listing_details" \in DOMAIN f => Tag(f.listing_details) \in {"none", "dict"})
       /\ ("agents" \in DOMAIN f => Tag(f.agents) \in {"none", "list"})
    THEN <<"dto", f>>
    ELSE Raised

IsDto(x) == Tag(x) = "dto"

\* The body of the try block, for a listing that is a dict.
ListingToDto(listing, link) ==
    LET fixed_url == Replace(link, BASE_URL \o <<"/", "/">>, BASE_URL \o <<"/">>)
        location == Get(listing, "location", PyDict(<<>>))
        loc == IF IsDict(location) THEN Val(location) ELSE <<>>
        address == AssembledAddress(loc)
        lease == EqualsInt(Get(listing, "listingType", PyInt(0)), 1)
        status == ListingStatus(listing)
        price == PriceFormatted(listing)
        items == MediaItems(listing)
        photos == IF IsRaised(items) THEN Raised ELSE Photos(Val(items), 1, <<>>)
        brochure == IF IsRaised(items) THEN Raised ELSE Brochure(Val(items), 1)
        size == ListingSize(listing)
        details == IF DetailedInfoRaises(listing) THEN Raised ELSE ListingDetails(listing)
        contacts == FullContacts(listing)
        agents_list == IF IsRaised(contacts) THEN Raised ELSE Agents(Val(contacts), 1, <<>>)
    IN IF \/ ~IsDict(location)
          \/ IsRaised(address) \/ IsRaised(status) \/ IsRaised(price)
          \/ IsRaised(size) \/ IsRaised(details)
          \/ IsRaised(photos) \/ IsRaised(brochure) \/ IsRaised(agents_list)
       THEN Raised
       ELSE DbDTO([source_name |-> PyStr(<<"compass">>),
                   listing_id |-> ListingId(listing, fixed_url),
                   listing_link |-> PyStr(fixed_url),
                   listing_type |-> PyStr(IF lease THEN <<"For Lease">> ELSE <<"For Sale">>),
                   listing_status |-> status,
                   address |-> AddressField(address),
                   building_number |-> Get(loc, "streetNumber", PyNone),
                   street_name |-> Get(loc, "street", PyNone),
                   unit_number |-> Get(loc, "unitNumber", PyNone),
                   city |-> Get(loc, "city", PyNone),
                   state |-> Get(loc, "state", PyNone),
                   zipcode |-> Get(loc, "zipCode", PyNone),
                   sale_price |-> IF lease THEN PyNone ELSE price,
                   lease_price |-> IF lease THEN price ELSE PyNone,
                   size |-> size,
                   listing_details |-> details,
                   photos |-> IF Truthy(photos) THEN photos ELSE PyNone,
                   brochure_pdf |-> brochure,
                   agents |-> IF Truthy(agents_list) THEN agents_list ELSE PyNone])

\* extract_listing_data(initial_data, url): a DbDTO, or None - also when
\* anything in the try block raised.
extract_listing_data(data, link) ==
    LET listing == FindListing(data) IN
    IF IsRaised(listing) \/ ~Truthy(listing) \/ ~IsDict(listing) THEN PyNone
    ELSE IF IsDto(ListingToDto(Val(listing), link))
    THEN ListingToDto(Val(listing), link)
    ELSE PyNone

----------------------------------------------------------------------------
(* compas/compass.py: parse_listing_from_api_data and the address, size    *)
(* and status of _map_to_dto_from_api.  The listings carry a page link,    *)
(* structuredData, a location, subStats, badges and a status; a field that *)
(* comes from another member (title, media, clusterSummary) has the value  *)
(* the code gives it without it.                                           *)

\* CompassParser.base_url, line 48
base_url == <<"https:", "/", "/", "www.compass.com">>

\* lines 804-811: the address out of the parsed singleFamilyResidence.
SfrAddress(sfr) ==
    IF ~CanContain(sfr) THEN Raised
    ELSE IF ~Member(sfr, "address") THEN PyStr(<<"Address not found">>)
    ELSE IF ~IsDict(sfr) \/ ~IsDict(Lookup(Val(sfr), <<"address">>)) THEN Raised
    ELSE LET addr == Val(Lookup(Val(sfr), <<"address">>))
             fields == << Get(addr, "streetAddress", PyStr(<<>>)),
                          Get(addr, "addressLocality", PyStr(<<>>)),
                          Get(addr, "addressRegion", PyStr(<<>>)),
                          Get(addr, "postalCode", PyStr(<<>>)) >>
             parts == SelectSeq(fields, Truthy)
         IN IF parts = <<>> THEN PyStr(<<"Address not found">>)
            ELSE IF \A i \in 1..Len(parts) : IsStr(parts[i])
            THEN PyStr(Join([i \in 1..Len(parts) |-> Val(parts[i])], <<",", " ">>))
            ELSE Raised

\* lines 797-813: a JSONDecodeError leaves the sentinel, any other
\* exception leaves the function.
StructuredAddress(listing) ==
    LET structured_data == Get(listing, "structuredData", PyDict(<<>>)) IN
    IF ~CanContain(structured_data) THEN Raised
    ELSE IF ~Member(structured_data, "singleFamilyResidence") THEN PyStr(<<"Address not found">>)
    ELSE IF ~IsDict(structured_data) THEN Raised
    ELSE LET sfr_str == Lookup(Val(structured_data), <<"singleFamilyResidence">>) IN
        IF ~IsStr(sfr_str) \/ ~json_loads(Val(sfr_str)).ok THEN PyStr(<<"Address not found">>)
        ELSE SfrAddress(json_loads(Val(sfr_str)).val)

\* lines 816-819
LocationFallback(listing, address) ==
    LET location == Get(listing, "location", PyDict(<<>>)) IN
    IF address = PyStr(<<"Address not found">>) /\ IsDict(location)
       /\ HasKey(Val(location), <<"prettyAddress">>)
    THEN Lookup(Val(location), <<"prettyAddress">>)
    ELSE address

\* What iterating over listing_data.get('subStats', []) gives, or Raised.
SubStats(listing) ==
    LET sub_stats == Get(listing, "subStats", PyList(<<>>)) IN
    IF IsList(sub_stats) THEN sub_stats
    ELSE IF Tag(sub_stats) \in {"str", "dict"} /\ Val(sub_stats) = <<>> THEN PyList(<<>>)
    ELSE Raised

\* line 843: stat.get('subtitle', '').replace(',', '').replace('-', '').strip()
Subtitle(stat) ==
    Strip(Replace(Replace(Val(Get(stat, "subtitle", PyStr(<<>>))), <<",">>, <<>>), <<"-">>, <<>>))

\* lines 846-850
SquareFeet(subtitle) ==
    IF IsInt(subtitle) THEN PyStr(Thousands(Canonical(subtitle)) \o <<" SF">>)
    ELSE PyStr(subtitle \o <<" SF">>)

\* line 854
Acres(subtitle) == PyStr(subtitle \o <<" acres">>)

RECURSIVE SizeFirstMatch(_, _, _)
\* A loop that stops at the first entry with a usable value of either unit.
SizeFirstMatch(stats, i, size) ==
    IF i > Len(stats) THEN size
    ELSE IF ~IsDict(stats[i]) \/ ~IsStr(Get(Val(stats[i]), "subtitle", PyStr(<<>>))) THEN Raised
    ELSE LET title_key == Get(Val(stats[i]), "title", PyStr(<<>>))
             subtitle == Subtitle(Val(stats[i]))
         IN IF subtitle = <<>> \/ subtitle = <<"Unavailable">> THEN SizeFirstMatch(stats, i + 1, size)
            ELSE IF title_key = PyStr(<<"sqft">>) THEN SquareFeet(subtitle)
            ELSE IF title_key = PyStr(<<"acres">>) THEN Acres(subtitle)
            ELSE SizeFirstMatch(stats, i + 1, size)

RECURSIVE SizeFromStats(_, _, _)
\* lines 840-854: the loop over sub_stats from entry i on, size so far.
SizeFromStats(stats, i, size) ==
    IF i > Len(stats) THEN size
    ELSE IF ~IsDict(stats[i]) \/ ~IsStr(Get(Val(stats[i]), "subtitle", PyStr(<<>>))) THEN Raised
    ELSE LET title_key == Get(Val(stats[i]), "title", PyStr(<<>>))
             subtitle == Subtitle(Val(stats[i]))
             usable == subtitle # <<>> /\ subtitle # <<"Unavailable">>
         IN IF title_key = PyStr(<<"sqft">>) /\ usable THEN SquareFeet(subtitle)
            ELSE IF title_key = PyStr(<<"acres">>) /\ usable /\ ~Truthy(size)
            THEN SizeFromStats(stats, i + 1, Acres(subtitle))
            ELSE SizeFromStats(stats, i + 1, size)

\* lines 881-898
ApiStatus(listing) ==
    LET badges == Get(listing, "badges", PyDict(<<>>))
        corner_badges == IF IsDict(badges) THEN Get(Val(badges), "cornerBadges", PyList(<<>>))
                         ELSE PyNone
        status_code == Get(listing, "status", PyNone)
    IN IF ~IsDict(badges) THEN Raised
       ELSE IF Truthy(corner_badges)
       THEN IF IsList(corner_badges) /\ IsDict(Val(corner_badges)[1])
            THEN Get(Val(Val(corner_badges)[1]), "displayText", PyStr(<<"Available">>))
            ELSE Raised
       ELSE IF ~Truthy(status_code) THEN PyStr(<<"Available">>)
       ELSE IF Tag(status_code) \in {"list", "dict"} THEN Raised
       ELSE IF Tag(status_code) = "int" /\ Val(status_code) \in {12, 9, 14} THEN PyStr(<<"Active">>)
       ELSE PyStr(<<"Status ">> \o Format(status_code))

\* _map_to_dto_from_api(listing_data, url, listing_id): the record, or
\* Raised.
map_to_dto_from_api(listing, link, listing_id) ==
    LET structured == StructuredAddress(listing)
        sub_stats == SubStats(listing)
        size == IF IsRaised(sub_stats) THEN Raised ELSE SizeFromStats(Val(sub_stats), 1, PyNone)
        status == ApiStatus(listing)
    IN
    IF IsRaised(structured) \/ IsRaised(size) \/ IsRaised(status) THEN Raised
    ELSE DbDTO([source_name |-> PyStr(<<"compass">>),
                listing_id |-> listing_id,
                listing_link |-> link,
                listing_type |-> PyStr(<<"sale">>),
                listing_status |-> status,
                address |-> LocationFallback(listing, structured),
                building_number |-> PyNone,
                street_name |-> PyNone,
                unit_number |-> PyNone,
                city |-> PyNone,
                state |-> PyNone,
                zipcode |-> PyNone,
                sale_price |-> PyNone,
                lease_price |-> PyNone,
                size |-> size,
                photos |-> PyNone,
                brochure_pdf |-> PyNone])

\* lines 611-614: urljoin(self.base_url, page_link) for a link that does
\* not start with 'http'.
PageUrl(page_link) ==
    IF Head(page_link) \in {"http:", "https:"} THEN page_link
    ELSE IF Head(page_link) = "/" THEN base_url \o page_link
    ELSE base_url \o <<"/">> \o page_link

\* lines 617-621: the last non-empty segment of the path of the url.
PathId(link) ==
    LET segments == Split(link, "/")
        path_parts == SelectSeq(SubSeq(segments, 4, Len(segments)), LAMBDA part : part # <<>>)
    IN IF path_parts = <<>> THEN <<"unknown">> ELSE path_parts[Len(path_parts)]

\* parse_listing_from_api_data(listing_data): the record, or None - also
\* when anything in the try block raised.  _enrich_from_html changes none
\* of the fields kept here.
parse_listing_from_api_data(data) ==
    IF ~IsDict(data) THEN PyNone
    ELSE LET first == Get(Val(data), "pageLink", PyNone)
             page_link == IF Truthy(first) THEN first
                          ELSE Get(Val(data), "navigationPageLink", PyStr(<<>>))
         IN IF ~Truthy(page_link) \/ ~IsStr(page_link) THEN PyNone
            ELSE LET link == PageUrl(Val(page_link))
                     mapped == map_to_dto_from_api(Val(data), PyStr(link), PyStr(PathId(link)))
                 IN IF IsDto(mapped) THEN mapped ELSE PyNone

----------------------------------------------------------------------------
(* The pages given to the extractors: the text a site serialises a JSON    *)
(* value to (json.dumps with its default separators), between a prefix, an *)
(* assignment head and a suffix; truncated pages; short arbitrary texts.   *)

RECURSIVE EscapeStr(_)
EscapeStr(s) ==
    IF s = <<>> THEN <<>>
    ELSE (CASE Head(s) = "\"" -> <<"\\", "\"">>
            [] Head(s) = "\\" -> <<"\\", "\\">>
            [] Head(s) = "\n" -> <<"\\", "n">>
            [] OTHER -> <<Head(s)>>) \o EscapeStr(Tail(s))

Quoted(s) == <<"\"">> \o EscapeStr(s) \o <<"\"">>

RECURSIVE Dumps(_)
RECURSIVE DumpsMembers(_, _)
RECURSIVE DumpsElements(_, _)

Dumps(x) ==
    CASE Tag(x) = "none" -> <<"null">>
      [] Tag(x) = "bool" -> IF Val(x) THEN <<"true">> ELSE <<"false">>
      [] Tag(x) = "int" -> <<SymOf(Val(x))>>
      [] Tag(x) = "str" -> Quoted(Val(x))
      [] Tag(x) = "list" -> <<"[">> \o DumpsElements(Val(x), 1) \o <<"]">>
      [] Tag(x) = "dict" -> <<"{">> \o DumpsMembers(Val(x), 1) \o <<"}">>

DumpsMembers(d, i) ==
    IF i > Len(d) THEN <<>>
    ELSE (IF i > 1 THEN <<",", " ">> ELSE <<>>)
         \o Quoted(d[i].k) \o <<":", " ">> \o Dumps(d[i].v) \o DumpsMembers(d, i + 1)

DumpsElements(l, i) ==
    IF i > Len(l) THEN <<>>
    ELSE (IF i > 1 THEN <<",", " ">> ELSE <<>>) \o Dumps(l[i]) \o DumpsElements(l, i + 1)

\* A dict payload from keys and values.
Entry(name, val) == [k |-> <<name>>, v |-> val]

\* How deep the generated objects nest, and how long the arbitrary texts are.
MaxNesting == 2
MaxJunkLen == 3

\* String values that could mislead a brace matcher.
TrickyStrings ==
    { <<>>, <<"x">>, <<"{">>, <<"}">>, <<"}", ";">>, <<"x", "}", ";", " ", "y">>,
      <<"\"">>, <<"\\">>, <<"a", "\\", "\"", "}", ";", "{">> }

RECURSIVE Deep(_, _)
Deep(x, d) == IF d = 0 THEN x ELSE PyDict(<<Entry("a", Deep(x, d - 1))>>)

PageObjects ==
    {PyDict(<<>>)}
    \cup {Deep(PyStr(s), d) : s \in TrickyStrings, d \in 1..(MaxNesting + 1)}
    \cup {PyDict(<<Entry("a", PyStr(s)), Entry("b", PyDict(<<Entry("c", PyInt(1))>>))>>) :
            s \in TrickyStrings}
    \cup {PyDict(<<Entry("a", PyList(<<PyStr(s), PyDict(<<Entry("b", PyNone)>>)>>))>>) :
            s \in TrickyStrings}

Prefixes(s) == {SubSeq(s, 1, n) : n \in 0..(Len(s) - 1)}

RECURSIVE SeqsUpTo(_, _)
\* All sequences over alphabet of length at most n.
SeqsUpTo(alphabet, n) ==
    IF n = 0 THEN {<<>>}
    ELSE LET shorter == SeqsUpTo(alphabet, n - 1) IN
         shorter \cup {Append(s, a) : s \in shorter, a \in alphabet}

W == "window."
M == "__INITIAL_DATA__"

PagePre == {<<>>, <<"x", ";", " ">>, <<"=", " ", "{", "}", ";">>}

PageHead ==
    { <<M, " ", "=", " ">>, <<M, "=">>, <<W, M, " ", "=", "\n", " ">>, <<W, M, "=">>,
      <<M, " ", "x", " ", "=", " ">>, <<M, ";", " ", W, M, " ", "=", " ">>,
      <<W, "x", " ", "=", " ">>, <<M, " ">>, <<M, "=", "x">>, <<>> }

PageSuf == {<<>>, <<";">>, <<";", "\n", "x", "=", "{", "}", ";">>, <<"}", ";">>}

PageBody == {Dumps(o) : o \in PageObjects} \cup {<<>>, <<"x">>, <<"[", "]">>}

Pages ==
    {pre \o head \o body \o suf :
        pre \in PagePre, head \in PageHead, body \in PageBody, suf \in PageSuf}
    \cup {head \o cut : head \in {<<M, " ", "=", " ">>, <<W, M, "=">>},
                        cut \in UNION {Prefixes(Dumps(o)) : o \in PageObjects}}
    \cup SeqsUpTo({M, "=", "{", "}", "\"", " "}, MaxJunkLen)

StartMarkers == {<<M>>, <<W, M>>}

\* The listing page of the end-to-end scenario, separators as written there,
\* with and without markup after the assignment.
ScenarioText ==
    <<W, M, " ", "=", " ", "{">> \o Quoted(<<"props">>) \o <<":", "{">>
    \o Quoted(<<"listingRelation">>) \o <<":", "{">> \o Quoted(<<"listing">>) \o <<":", "{">>
    \o Quoted(<<"listingIdSHA">>) \o <<":">> \o Quoted(<<"abc123">>) \o <<",">>
    \o Quoted(<<"location">>) \o <<":", "{">> \o Quoted(<<"prettyAddress">>) \o <<":">>
    \o Quoted(<<"1 Main St, Springfield, IL 62701">>) \o <<"}", ",">>
    \o Quoted(<<"price">>) \o <<":", "{">> \o Quoted(<<"formatted">>) \o <<":">>
    \o Quoted(<<"$500,000">>) \o <<"}", ",">>
    \o Quoted(<<"listingType">>) \o <<":", "0", ",">>
    \o Quoted(<<"media">>) \o <<":", "[", "{">> \o Quoted(<<"category">>) \o <<":", "0", ",">>
    \o Quoted(<<"originalUrl">>) \o <<":">> \o Quoted(<<"/", "img", "/", "1.jpg">>)
    \o <<"}", "]", "}", "}", "}", "}", ";">>

ScenarioPages ==
    {pre \o ScenarioText \o suf :
        pre \in {<<>>, <<"<script>">>},
        suf \in {<<>>, <<"</script>", "\n", "<div>", "x", "=", "{", "}", ";", "</div>">>}}

\* The address of the page whose text is parsed.
ListingUrl == <<"https:", "/", "/", "www.compass.com", "/", "listing", "/", "abc123", "/">>

----------------------------------------------------------------------------
(* The values the variables of a part keep while another part runs.        *)

TextIdle ==
    /\ text = <<>>
    /\ start_marker = <<>>
    /\ json_str = PyNone
    /\ initial_data = PyNone
    /\ compass_data = PyNone

TreeIdle ==
    /\ obj = PyNone
    /\ path = <<>>
    /\ default = PyNone
    /\ key = <<>>
    /\ result = PyNone

ListingIdle ==
    /\ url = <<>>
    /\ dto = PyNone
    /\ listing_data = PyNone

BatchIdle ==
    /\ variant = ""
    /\ concurrency = 0
    /\ semaphore = 0
    /\ tasks = <<>>
    /\ parsed_listings = <<>>

AgentIdle ==
    /\ agents = <<>>
    /\ fragments = <<>>

RunIdle ==
    /\ urls = <<>>
    /\ visited = 0
    /\ results = <<>>

SaveIdle ==
    /\ html_counter = 0
    /\ save_html_every = 0
    /\ saved = <<>>

PageIdle ==
    /\ max_results = 0
    /\ page = 0
    /\ listings = <<>>
    /\ listings_data = <<>>
    /\ returned = <<>>

----------------------------------------------------------------------------
(* Specification Spec: a page goes through one of the extractors.          *)

Init ==
    /\ pc = "page"
    /\ text \in Pages \cup ScenarioPages
    /\ start_marker \in StartMarkers
    /\ json_str = PyNone
    /\ initial_data = PyNone
    /\ compass_data = PyNone
    /\ TreeIdle
    /\ BatchIdle
    /\ AgentIdle
    /\ RunIdle
    /\ SaveIdle
    /\ PageIdle
    /\ url = ListingUrl
    /\ dto = PyNone
    /\ listing_data = PyNone

\* extract_json_from_text(text, start_marker)
ExtractJsonFromText ==
    /\ pc = "page"
    /\ json_str' = extract_json_from_text(text, start_marker)
    /\ pc' = "json_str"
    /\ UNCHANGED <<text, start_marker, initial_data, compass_data, treeVars, listingVars, batchVars, agentVars, runVars, saveVars, pageVars>>

\* extract_initial_data(html) of compas/test.py
ExtractInitialData ==
    /\ pc = "page"
    /\ initial_data' = extract_initial_data(text)
    /\ pc' = "initial_data"
    /\ UNCHANGED <<text, start_marker, json_str, compass_data, treeVars, listingVars, batchVars, agentVars, runVars, saveVars, pageVars>>

\* CompassParser.extract_initial_data(html) of compas/compass.py
CompassExtractInitialData ==
    /\ pc = "page"
    /\ compass_data' = CompassParser_extract_initial_data(text)
    /\ pc' = "compass_data"
    /\ UNCHANGED <<text, start_marker, json_str, initial_data, treeVars, listingVars, batchVars, agentVars, runVars, saveVars, pageVars>>

\* parse_listing of compas/test.py, after extract_initial_data: a falsy
\* initial_data ends the call, any other goes to extract_listing_data.
ListingFromInitialData ==
    /\ pc = "initial_data"
    /\ Truthy(initial_data)
    /\ dto' = extract_listing_data(initial_data, url)
    /\ pc' = "dto"
    /\ UNCHANGED <<textVars, treeVars, url, listing_data, batchVars, agentVars, runVars, saveVars, pageVars>>

Next ==
    \/ ExtractJsonFromText
    \/ ExtractInitialData
    \/ CompassExtractInitialData
    \/ ListingFromInitialData

Spec == Init /\ [][Next]_vars

----------------------------------------------------------------------------
(* Reference notions the claims about the extractors are stated with,      *)
(* written by counting instead of scanning.                                *)

Min(S) == CHOOSE x \in S : \A y \in S : x <= y

\* 0-based positions where sub occurs in s.
Occurrences(s, sub) ==
    {p \in 0..(Len(s) - Len(sub)) : SubSeq(s, p + 1, p + Len(sub)) = sub}

\* 0-based positions of "=" at or after the first occurrence of marker.
EqualsAfterMarker(s, marker) ==
    {q \in Min(Occurrences(s, marker))..(Len(s) - 1) : s[q + 1] = "="}

\* The first position after the first "=" after the first marker that holds
\* no whitespace (Len(s) when only whitespace follows).
AfterEquals(s, marker) ==
    Min({j \in (Min(EqualsAfterMarker(s, marker)) + 1)..Len(s) :
            j = Len(s) \/ s[j + 1] \notin Whitespace})

\* The marker occurs and a "=" follows its first occurrence.
HasAssignment(s, marker) ==
    /\ Occurrences(s, marker) # {}
    /\ EqualsAfterMarker(s, marker) # {}

\* The assignment is of a syntactically valid JSON object.
AssignsObject(s, marker) ==
    /\ HasAssignment(s, marker)
    /\ AfterEquals(s, marker) < Len(s)
    /\ s[AfterEquals(s, marker) + 1] = "{"
    /\ ParseValue(s, AfterEquals(s, marker)).ok

\* The character at 0-based position j is escaped: the run of backslashes
\* that ends right before it (and starts no earlier than from) is odd.
Escaped(s, from, j) ==
    LET run == Min({n \in 0..(j - from) : n = j - from \/ s[j - n] # "\\"})
    IN run % 2 = 1

\* Position j lies inside a string literal that was opened at or after from.
InString(s, from, j) ==
    Cardinality({k \in from..(j - 1) : s[k + 1] = "\"" /\ ~Escaped(s, from, k)}) % 2 = 1

\* Brace depth after the character at position i, counted from from.
DepthAfter(s, from, i) ==
    LET live(c) == {k \in from..i :
                      s[k + 1] = c /\ ~Escaped(s, from, k) /\ ~InString(s, from, k)}
    IN Cardinality(live("{")) - Cardinality(live("}"))

----------------------------------------------------------------------------
(* Claims about extract_json_from_text                                     *)

\* C1: when the marker's first occurrence is followed by "=", optional
\* whitespace and a syntactically valid JSON object, the result is exactly
\* the substring from that object's opening brace to its matching closing
\* brace, whatever braces, "};" or escaped quotes its strings hold.
C1_ReturnsWholeObject ==
    (pc = "json_str" /\ AssignsObject(text, start_marker))
        => json_str = PyStr(SubSeq(text, AfterEquals(text, start_marker) + 1,
                                   ParseValue(text, AfterEquals(text, start_marker)).pos))

SpecExampleObject ==
    PyDict(<<Entry("a", PyStr(<<"x", "}", ";", " ", "y">>)),
             Entry("b", PyDict(<<Entry("c", PyInt(1))>>))>>)

\* The example of the specification: marker = {"a": "x}; y", "b": {"c": 1}};
C1_Witness ==
    /\ pc = "json_str"
    /\ text = <<M, " ", "=", " ">> \o Dumps(SpecExampleObject) \o <<";">>
    /\ AssignsObject(text, start_marker)
    /\ json_str = PyStr(Dumps(SpecExampleObject))

\* The three cases of C3.
MarkerAbsent(s, marker) == Occurrences(s, marker) = {}

NoBraceAfterEquals(s, marker) ==
    /\ HasAssignment(s, marker)
    /\ \/ AfterEquals(s, marker) = Len(s)
       \/ s[AfterEquals(s, marker) + 1] # "{"

DepthNeverZero(s, marker) ==
    /\ HasAssignment(s, marker)
    /\ AfterEquals(s, marker) < Len(s)
    /\ s[AfterEquals(s, marker) + 1] = "{"
    /\ \A i \in AfterEquals(s, marker)..(Len(s) - 1) :
            DepthAfter(s, AfterEquals(s, marker), i) # 0

\* C3: the result is None when the marker does not occur, when the first
\* non-whitespace character after the "=" is not "{" (or the text ends
\* there), and when the brace depth never returns to zero.
C3_NoneOnFailure ==
    (/\ pc = "json_str"
     /\ \/ MarkerAbsent(text, start_marker)
        \/ NoBraceAfterEquals(text, start_marker)
        \/ DepthNeverZero(text, start_marker))
        => json_str = PyNone

\* A truncated object with a string in it, after a well-formed head.
C3_Witness ==
    /\ pc = "json_str"
    /\ DepthNeverZero(text, start_marker)
    /\ \E k \in 1..Len(text) : text[k] = "\""
    /\ \E k \in 1..Len(text) : text[k] = "}"
    /\ json_str = PyNone

----------------------------------------------------------------------------
(* Claim about CompassParser.extract_initial_data                          *)

\* The positions where  window.__INITIAL_DATA__ = <obj>;  starts, <obj> a
\* syntactically valid non-empty JSON object.
InitialDataAssignments(s) ==
    {p \in Occurrences(s, <<W, M>>) :
        LET eq == SkipWhitespace(s, p + 2)
            open == SkipWhitespace(s, eq + 1)
        IN /\ eq < Len(s) /\ s[eq + 1] = "="
           /\ open < Len(s) /\ s[open + 1] = "{"
           /\ ParseValue(s, open).ok
           /\ Val(ParseValue(s, open).val) # <<>>
           /\ ParseValue(s, open).pos < Len(s)
           /\ s[ParseValue(s, open).pos + 1] = ";"}

AssignedObject(s, p) ==
    ParseValue(s, SkipWhitespace(s, SkipWhitespace(s, p + 2) + 1)).val

\* C2: CompassParser.extract_initial_data returns the full parsed object of
\* a page that holds  window.__INITIAL_DATA__ = <obj>;  also when a string
\* inside <obj> contains "};".
C2_ReturnsFullObject ==
    (pc = "compass_data" /\ InitialDataAssignments(text) # {})
        => compass_data = AssignedObject(text, Min(InitialDataAssignments(text)))

----------------------------------------------------------------------------
(* Specification SpecTree: get_val and find_key on JSON trees.             *)

\* How deep the generated trees nest.
MaxDepth == 3

TreeLeaves == {PyNone, PyInt(0), PyInt(5), PyInt(7), PyStr(<<"x">>)}

Sibling == PyDict(<<Entry("c", PyInt(5))>>)

RECURSIVE Trees(_)
\* Trees of depth at most d: leaves, empty containers, dicts of one entry,
\* lists of one item, and dicts and lists with a second entry after it.
Trees(d) ==
    IF d = 0 THEN TreeLeaves \cup {PyDict(<<>>), PyList(<<>>)}
    ELSE LET sub == Trees(d - 1) IN
         TreeLeaves \cup {PyDict(<<>>), PyList(<<>>)}
         \cup {PyDict(<<Entry(n, t)>>) : n \in {"a", "b", "c"}, t \in sub}
         \cup {PyList(<<t>>) : t \in sub}
         \cup {PyDict(<<Entry(n, t), Entry("c", PyInt(5))>>) : n \in {"a", "b"}, t \in sub}
         \cup {PyDict(<<Entry("a", t), Entry("b", Sibling)>>) : t \in sub}
         \cup {PyList(<<t, Sibling>>) : t \in sub}

\* The segment lists of the dotted paths asked for.
PathSegments ==
    { << <<"a">> >>, << <<"a">>, <<"b">> >>, << <<"a">>, <<"b">>, <<"c">> >>,
      << <<"c">> >>, << <<"b">>, <<"a">> >>, << <<>> >>, << <<"a">>, <<>>, <<"b">> >> }

Paths == {Join(segs, <<".">>) : segs \in PathSegments}

InitTree ==
    /\ pc = "tree"
    /\ obj \in Trees(MaxDepth)
    /\ path = <<>>
    /\ default = PyStr(<<"default">>)
    /\ key = <<>>
    /\ result = PyNone
    /\ TextIdle
    /\ ListingIdle
    /\ BatchIdle
    /\ AgentIdle
    /\ RunIdle
    /\ SaveIdle
    /\ PageIdle

\* get_val(obj, path, default)
GetVal ==
    /\ pc = "tree"
    /\ \E dotted \in Paths :
        /\ path' = dotted
        /\ result' = get_val(obj, dotted, default)
    /\ pc' = "get_val"
    /\ UNCHANGED <<obj, default, key, textVars, listingVars, batchVars, agentVars, runVars, saveVars, pageVars>>

\* find_key(obj, key)
FindKey ==
    /\ pc = "tree"
    /\ \E name \in {<<"a">>, <<"c">>} :
        /\ key' = name
        /\ result' = find_key(obj, name)
    /\ pc' = "find_key"
    /\ UNCHANGED <<obj, path, default, textVars, listingVars, batchVars, agentVars, runVars, saveVars, pageVars>>

NextTree == GetVal \/ FindKey

SpecTree == InitTree /\ [][NextTree]_vars

----------------------------------------------------------------------------
(* Claims about get_val and find_key                                       *)

RECURSIVE Descend(_, _)
\* The value reached from tree through the keys, when every key resolves.
Descend(tree, keys) ==
    IF keys = <<>> THEN [ok |-> TRUE, val |-> tree]
    ELSE IF IsDict(tree) /\ HasKey(Val(tree), Head(keys))
    THEN Descend(Lookup(Val(tree), Head(keys)), Tail(keys))
    ELSE [ok |-> FALSE, val |-> PyNone]

\* C4: get_val returns the value at the dotted path when every segment
\* resolves, and the default as soon as the current value is not a mapping
\* or lacks the segment; it has no other outcome.
C4_GetValTotal ==
    pc = "get_val" =>
        \A segs \in PathSegments :
            path = Join(segs, <<".">>) =>
                result = IF Descend(obj, segs).ok
                         THEN Descend(obj, segs).val
                         ELSE default

\* get_val({'a': {'b': 5}}, 'a.b.c', 'default') = 'default'
C4_Witness ==
    /\ pc = "get_val"
    /\ obj = PyDict(<<Entry("a", PyDict(<<Entry("b", PyInt(5))>>))>>)
    /\ path = <<"a", ".", "b", ".", "c">>
    /\ result = PyStr(<<"default">>)

RECURSIVE FirstOccurrence(_, _)
RECURSIVE FirstOccurrenceIn(_, _, _)

NotFound == [found |-> FALSE, val |-> PyNone]

\* The first occurrence of name in depth-first order: a mapping's own key,
\* then its values in insertion order; a sequence's items in index order.
FirstOccurrence(tree, name) ==
    IF IsDict(tree)
    THEN IF HasKey(Val(tree), name)
         THEN [found |-> TRUE, val |-> Lookup(Val(tree), name)]
         ELSE FirstOccurrenceIn([i \in 1..Len(Val(tree)) |-> Val(tree)[i].v], 1, name)
    ELSE IF IsList(tree)
    THEN FirstOccurrenceIn(Val(tree), 1, name)
    ELSE NotFound

FirstOccurrenceIn(children, i, name) ==
    IF i > Len(children) THEN NotFound
    ELSE IF FirstOccurrence(children[i], name).found
    THEN FirstOccurrence(children[i], name)
    ELSE FirstOccurrenceIn(children, i + 1, name)

\* C5: find_key returns the value of the first occurrence of the key in
\* depth-first order, whatever that value is, and None only when the key
\* occurs nowhere in the tree.
C5_FirstOccurrence ==
    pc = "find_key" =>
        result = IF FirstOccurrence(obj, key).found
                 THEN FirstOccurrence(obj, key).val
                 ELSE PyNone

----------------------------------------------------------------------------
(* Specification SpecListing: extract_listing_data on a parsed tree and a  *)
(* url.  The trees vary one part of the listing at a time.                 *)

\* How many items the generated media lists hold.
MaxMedia == 2

Envelope(listing) ==
    PyDict(<<Entry("props", PyDict(<<Entry("listingRelation",
                                        PyDict(<<Entry("listing", listing)>>))>>))>>)

\* A member present with one of vals, or absent.
Opt(name, vals) == {<<>>} \cup {<<Entry(name, v)>> : v \in vals}

\* Trees without a usable listing.
NoListingTrees ==
    { PyNone, PyInt(0), PyStr(<<>>), PyList(<<>>), PyList(<<PyStr(<<"props">>)>>), PyDict(<<>>),
      PyDict(<<Entry("props", PyNone)>>), PyDict(<<Entry("props", PyDict(<<>>))>>),
      PyDict(<<Entry("props", PyDict(<<Entry("listingRelation", PyNone)>>))>>),
      PyDict(<<Entry("props", PyDict(<<Entry("listingRelation", PyDict(<<>>))>>))>>),
      Envelope(PyNone), Envelope(PyList(<<>>)), Envelope(PyDict(<<>>)),
      Envelope(PyStr(<<"x">>)), Envelope(PyInt(1)), Envelope(PyList(<<PyInt(1)>>)) }

Locations ==
    { PyDict(pretty \o number \o street \o type \o unit \o city \o state \o zip) :
        pretty \in Opt("prettyAddress",
                       {PyStr(<<>>), PyStr(<<"1 Main St">>), PyNone, PyInt(0), PyInt(7),
                        PyList(<<>>)}),
        number \in Opt("streetNumber", {PyStr(<<"12">>), PyInt(12)}),
        street \in Opt("street", {PyStr(<<"Main">>)}),
        type \in Opt("streetType", {PyStr(<<"St">>)}),
        unit \in {<<>>, <<Entry("unitNumber", PyStr(<<"4">>))>>, <<Entry("unitNumber", PyInt(7))>>,
                  <<Entry("unitType", PyStr(<<"Apt">>)), Entry("unitNumber", PyStr(<<"4">>))>>},
        city \in Opt("city", {PyStr(<<"Springfield">>), PyStr(<<>>)}),
        state \in Opt("state", {PyStr(<<"IL">>)}),
        zip \in Opt("zipCode", {PyStr(<<"62701">>), PyInt(62701)}) }
    \cup {PyNone, PyStr(<<"x">>), PyList(<<>>)}

LocationTrees ==
    {Envelope(PyDict(<<Entry("location", l)>>)) : l \in Locations}
    \cup {Envelope(PyDict(<<Entry("listingIdSHA", PyStr(<<"abc123">>))>>))}

IdTrees ==
    { Envelope(PyDict(sha \o compass \o feed \o <<Entry("listingType", PyInt(0))>>)) :
        sha \in Opt("listingIdSHA", {PyStr(<<"abc123">>), PyStr(<<>>), PyInt(0), PyInt(7), PyNone}),
        compass \in Opt("compassPropertyId", {PyInt(5), PyStr(<<>>)}),
        feed \in Opt("feedListingId", {PyStr(<<"f1">>), PyList(<<>>)}) }

TermsTrees ==
    { Envelope(PyDict(<<Entry("listingIdSHA", PyStr(<<"abc123">>))>>
                      \o kind \o localized \o code \o price)) :
        kind \in Opt("listingType", {PyInt(0), PyInt(1), PyStr(<<"1">>), PyBool(TRUE)}),
        localized \in Opt("localizedStatus", {PyStr(<<"Active">>), PyStr(<<>>)}),
        code \in Opt("status", {PyInt(12), PyInt(14), PyInt(99), PyNone, PyBool(FALSE),
                                PyStr(<<"x">>), PyList(<<>>)}),
        price \in Opt("price", {PyDict(<<Entry("formatted", PyStr(<<"$500,000">>))>>),
                                PyDict(<<>>), PyDict(<<Entry("formatted", PyInt(5))>>),
                                PyStr(<<"x">>), PyNone}) }

MediaItem ==
    { PyDict(<<Entry("category", PyInt(0)), Entry("originalUrl", PyStr(<<"/", "img", "/", "1.jpg">>))>>),
      PyDict(<<Entry("category", PyInt(0)),
               Entry("originalUrl", PyStr(<<"/", "/", "cdn", "/", "1.jpg">>))>>),
      PyDict(<<Entry("category", PyInt(1)), Entry("originalUrl", PyStr(<<"/", "doc", "/", "b", ".pdf">>))>>),
      PyDict(<<Entry("originalUrl", PyStr(<<"https:", "/", "/", "x", "/", "2.jpg">>))>>),
      PyDict(<<Entry("category", PyInt(0))>>),
      PyDict(<<Entry("category", PyInt(0)), Entry("originalUrl", PyInt(5))>>),
      PyStr(<<"x">>) }

MediaTrees ==
    { Envelope(PyDict(<<Entry("listingIdSHA", PyStr(<<"abc123">>))>> \o media)) :
        media \in Opt("media", {PyList(l) : l \in SeqsUpTo(MediaItem, MaxMedia)}
                               \cup {PyNone, PyStr(<<>>), PyStr(<<"x">>), PyDict(<<>>)}) }

ListingTrees == NoListingTrees \cup LocationTrees \cup IdTrees \cup TermsTrees \cup MediaTrees

\* Page addresses: none (the parameter's default), a listing page, the same
\* with the doubled slash of the sitemap, the site root, a bare word.
Urls ==
    { <<>>, ListingUrl,
      <<"https:", "/", "/", "www.compass.com", "/", "/", "listing", "/", "abc123", "/">>,
      BASE_URL, <<"abc123">> }

InitListing ==
    /\ pc = "listing"
    /\ text = <<>>
    /\ start_marker = <<>>
    /\ json_str = PyNone
    /\ compass_data = PyNone
    /\ TreeIdle
    /\ BatchIdle
    /\ AgentIdle
    /\ RunIdle
    /\ SaveIdle
    /\ PageIdle
    /\ url \in Urls
    /\ dto = PyNone
    /\ listing_data = PyNone
    /\ initial_data \in ListingTrees

\* extract_listing_data(initial_data, url)
ExtractListingData ==
    /\ pc = "listing"
    /\ dto' = extract_listing_data(initial_data, url)
    /\ pc' = "dto"
    /\ UNCHANGED <<textVars, treeVars, url, listing_data, batchVars, agentVars, runVars, saveVars, pageVars>>

NextListing == ExtractListingData

SpecListing == InitListing /\ [][NextListing]_vars

----------------------------------------------------------------------------
(* The address of a returned record                                        *)

\* The listing and the location that extract_listing_data read.
InputListing == Val(FindListing(initial_data))
InputLocation == Val(Get(InputListing, "location", PyDict(<<>>)))

AddressComponents ==
    {"streetNumber", "street", "streetType", "unitNumber", "city", "state", "zipCode"}

GivenComponents == {c \in AddressComponents : Truthy(Get(InputLocation, c, PyNone))}

Contains(s, sub) == Find(s, sub, 0) # -1

NotFoundSentinel == PyStr(<<"Address not found">>)

\* C6: whenever extract_listing_data returns a record, its address is a
\* non-empty string: the prettyAddress when that is given (truthy); else,
\* when some location component is given, a text other than the sentinel
\* that contains every given component; else the sentinel 'Address not
\* found'.
C6_AddressNeverEmpty ==
    (pc = "dto" /\ IsDto(dto)) =>
        LET address == Val(dto).address
            pretty == Get(InputLocation, "prettyAddress", PyStr(<<>>))
        IN /\ IsStr(address)
           /\ Val(address) # <<>>
           /\ Truthy(pretty) => address = pretty
           /\ (~Truthy(pretty) /\ GivenComponents = {}) => address = NotFoundSentinel
           /\ (~Truthy(pretty) /\ GivenComponents # {}) =>
                /\ address # NotFoundSentinel
                /\ \A c \in GivenComponents :
                      Contains(Val(address), Format(Lookup(InputLocation, <<c>>)))

\* A record was returned for a location whose prettyAddress is present but
\* empty and that has no other component: the sentinel took its place.
C6_Witness ==
    /\ pc = "dto"
    /\ IsDto(dto)
    /\ HasKey(InputLocation, <<"prettyAddress">>)
    /\ Lookup(InputLocation, <<"prettyAddress">>) = PyStr(<<>>)
    /\ GivenComponents = {}
    /\ Val(dto).address = NotFoundSentinel

\* A record was returned with an address assembled from components.
C6_WitnessAssembled ==
    /\ pc = "dto"
    /\ IsDto(dto)
    /\ ~HasKey(InputLocation, <<"prettyAddress">>)
    /\ GivenComponents = AddressComponents

----------------------------------------------------------------------------
(* All or nothing                                                          *)

NonEmptyStr(x) == IsStr(x) /\ Val(x) # <<>>

\* C8: extract_listing_data returns None or a record (it never raises); in
\* a record source_name, listing_id, listing_link and address are non-empty
\* strings, and a field whose source is absent from the listing is None:
\* listing_status without localizedStatus and status, the prices without
\* price, photos and brochure_pdf without media.
C8_AllOrNothing ==
    pc = "dto" =>
        \/ Tag(dto) = "none"
        \/ /\ IsDto(dto)
           /\ NonEmptyStr(Val(dto).source_name)
           /\ NonEmptyStr(Val(dto).listing_id)
           /\ NonEmptyStr(Val(dto).listing_link)
           /\ NonEmptyStr(Val(dto).address)
           /\ (~HasKey(InputListing, <<"localizedStatus">>) /\ ~HasKey(InputListing, <<"status">>))
                => Val(dto).listing_status = PyNone
           /\ ~HasKey(InputListing, <<"price">>)
                => (Val(dto).sale_price = PyNone /\ Val(dto).lease_price = PyNone)
           /\ ~HasKey(InputListing, <<"media">>)
                => (Val(dto).photos = PyNone /\ Val(dto).brochure_pdf = PyNone)

\* C8, the part about the link alone: no record has an empty listing_link.
C8_LinkEstablished ==
    (pc = "dto" /\ IsDto(dto)) => NonEmptyStr(Val(dto).listing_link)

----------------------------------------------------------------------------
(* The end-to-end scenario                                                 *)

ScenarioFields(photo) ==
    /\ IsDto(dto)
    /\ Val(dto).listing_id = PyStr(<<"abc123">>)
    /\ Val(dto).address = PyStr(<<"1 Main St, Springfield, IL 62701">>)
    /\ Val(dto).sale_price = PyStr(<<"$500,000">>)
    /\ Val(dto).lease_price = PyNone
    /\ Val(dto).listing_type = PyStr(<<"For Sale">>)
    /\ Val(dto).photos = PyList(<<PyStr(photo)>>)

\* C9 as stated: on the scenario page extract_initial_data gives a tree
\* that goes on to extract_listing_data, and the record has listing_id
\* 'abc123', address '1 Main St, Springfield, IL 62701', sale_price
\* '$500,000', no lease_price, listing_type 'For Sale' and photos
\* ['https://example.com/img/1.jpg'].
C9_ScenarioExampleCom ==
    text \in ScenarioPages =>
        /\ pc = "initial_data" => Truthy(initial_data)
        /\ pc = "dto" => ScenarioFields(<<"https:", "/", "/", "example.com", "/", "img", "/", "1.jpg">>)

\* C9 with the base URL the module has: the same record, with photos
\* ['https://www.compass.com/img/1.jpg'] - the root-relative URL is joined
\* to BASE_URL, which is no argument of the call.
C9_Scenario ==
    text \in ScenarioPages =>
        /\ pc = "initial_data" => Truthy(initial_data)
        /\ pc = "dto" => ScenarioFields(BASE_URL \o <<"/", "img", "/", "1.jpg">>)

\* The scenario page with markup after the assignment gave a record.
C9_Witness ==
    /\ text \in ScenarioPages
    /\ text[Len(text)] = "</div>"
    /\ pc = "dto"
    /\ IsDto(dto)

----------------------------------------------------------------------------
(* Specification SpecApi: parse_listing_from_api_data on a listing of the  *)
(* search API.                                                             *)

\* What structuredData.singleFamilyResidence holds once parsed.
SfrObjects ==
    { PyDict(<<Entry("address", PyDict(street \o city \o state \o zip))>>) :
        street \in Opt("streetAddress", {PyStr(<<"1 Main St">>), PyStr(<<>>)}),
        city \in Opt("addressLocality", {PyStr(<<"Springfield">>)}),
        state \in Opt("addressRegion", {PyStr(<<"IL">>)}),
        zip \in Opt("postalCode", {PyStr(<<"62701">>), PyInt(62701)}) }
    \cup { PyDict(<<>>), PyDict(<<Entry("address", PyNone)>>), PyList(<<>>), PyInt(1) }

StructuredData ==
    {PyDict(<<Entry("singleFamilyResidence", PyStr(Dumps(o)))>>) : o \in SfrObjects}
    \cup { PyDict(<<>>), PyNone, PyList(<<>>),
           PyDict(<<Entry("singleFamilyResidence", PyStr(<<"{", "\"", "address">>))>>),
           PyDict(<<Entry("singleFamilyResidence", PyInt(1))>>) }

ApiLocations ==
    { PyDict(<<>>), PyNone, PyStr(<<"prettyAddress">>),
      PyDict(<<Entry("prettyAddress", PyStr(<<"1 Main St, Springfield">>))>>),
      PyDict(<<Entry("prettyAddress", PyStr(<<>>))>>),
      PyDict(<<Entry("prettyAddress", PyNone)>>) }

PageLinks ==
    { PyStr(<<"/", "homes-for-sale", "/", "1-main-st", "/">>),
      PyStr(<<"https:", "/", "/", "www.compass.com", "/", "listing", "/", "abc123">>),
      PyStr(<<>>), PyNone }

ApiListings ==
    { PyDict(link \o structured \o location) :
        link \in Opt("pageLink", PageLinks) \cup Opt("navigationPageLink", PageLinks),
        structured \in Opt("structuredData", StructuredData),
        location \in Opt("location", ApiLocations) }
    \cup {PyNone, PyList(<<>>)}

InitApi ==
    /\ pc = "listing_data"
    /\ TextIdle
    /\ TreeIdle
    /\ BatchIdle
    /\ AgentIdle
    /\ RunIdle
    /\ SaveIdle
    /\ PageIdle
    /\ url = <<>>
    /\ dto = PyNone
    /\ listing_data \in ApiListings

\* parse_listing_from_api_data(listing_data)
ParseListingFromApiData ==
    /\ pc = "listing_data"
    /\ dto' = parse_listing_from_api_data(listing_data)
    /\ pc' = "api_dto"
    /\ UNCHANGED <<textVars, treeVars, url, listing_data, batchVars, agentVars, runVars, saveVars, pageVars>>

NextApi == ParseListingFromApiData

SpecApi == InitApi /\ [][NextApi]_vars

\* C7: whenever parse_listing_from_api_data returns a record, its address
\* is a non-empty string - also when structuredData gives no address and
\* location.prettyAddress is present but empty.
C7_ApiAddressNeverEmpty ==
    (pc = "api_dto" /\ IsDto(dto)) => NonEmptyStr(Val(dto).address)

----------------------------------------------------------------------------
(* Specification SpecBatch: a batch of listing-detail fetches under the    *)
(* counting semaphore.  Each task is a parse_listing coroutine; a step is  *)
(* what a coroutine does between two awaits.  In compas/test.py and        *)
(* property/test.py the semaphore is held over the request and the parsing *)
(* that follows it without an await; in members_moodys.py get_html holds   *)
(* it over the request alone and parse_listing goes on without an await.   *)

\* How many listing urls a batch has, and how large concurrency gets.
MaxListings == 3
MaxConcurrency == 2

\* compas/test.py line 1055
max_retries == 3

Variants == {"compass", "jll", "rwholmes"}

\* Before `async with semaphore`, or waiting in it.
Waiting == [at |-> "acquire", attempt |-> 0, result |-> "pending"]

\* asyncio.Semaphore: acquire() goes through when the value is positive and
\* takes one permit; release() gives one back.
locked(value) == value = 0
acquire(value) == value - 1
release_lost(value) == value
release(value) == value + 1

\* compas/test.py line 1062: a 403 is answered with another request unless
\* the attempt was the last one.
may_retry_once_more(attempt) == attempt < max_retries
may_retry(attempt) == attempt < max_retries - 1

\* How many tasks of the batch have ended.
Finished(all) == Cardinality({t \in DOMAIN all : all[t].at = "done"})

\* The positions of a finished batch in the order the tasks ended.
ByCompletion(gathered) ==
    [k \in 1..Len(gathered) |-> CHOOSE i \in 1..Len(gathered) : gathered[i].order = k]

\* A results list in completion order (what asyncio.as_completed would
\* give), filtered for records.
parsed_as_completed(gathered) ==
    LET IsRecord(i) == gathered[i].result = "dto"
    IN SelectSeq(ByCompletion(gathered), IsRecord)

\* A results filter that keeps every position.
parsed_all(gathered) == [i \in 1..Len(gathered) |-> i]

RECURSIVE parsed(_)
\* The loop over enumerate(results) after gather: the positions whose
\* result is a record, in order (compas/test.py 1120-1126, property/test.py
\* 424-433, members_moodys.py 818-825).
parsed(gathered) ==
    IF gathered = <<>> THEN <<>>
    ELSE LET last == Len(gathered)
             before == parsed(SubSeq(gathered, 1, last - 1))
         IN IF gathered[last].result = "dto" THEN Append(before, last) ELSE before

InitBatch ==
    /\ pc = "gather"
    /\ TextIdle
    /\ TreeIdle
    /\ ListingIdle
    /\ AgentIdle
    /\ RunIdle
    /\ SaveIdle
    /\ PageIdle
    /\ variant \in Variants
    /\ concurrency \in 1..MaxConcurrency
    /\ semaphore = concurrency
    /\ \E n \in 0..MaxListings : tasks = [t \in 1..n |-> Waiting]
    /\ parsed_listings = <<>>

\* `async with semaphore:` entered, the request is sent.
Acquire(t) ==
    /\ pc = "gather"
    /\ tasks[t].at = "acquire"
    /\ ~locked(semaphore)
    /\ semaphore' = acquire(semaphore)
    /\ tasks' = [tasks EXCEPT ![t].at = "get"]
    /\ UNCHANGED <<pc, variant, concurrency, parsed_listings, textVars, treeVars, listingVars, agentVars, runVars, saveVars, pageVars>>

\* The response is a 200: the page is parsed, which gives a record or
\* nothing, and the `async with` block is left.
Respond(t) ==
    /\ pc = "gather"
    /\ tasks[t].at = "get"
    /\ semaphore' = release(semaphore)
    /\ \E outcome \in {"dto", "none"} :
          tasks' = [tasks EXCEPT ![t].at = "done", ![t].result = outcome]
    /\ UNCHANGED <<pc, variant, concurrency, parsed_listings, textVars, treeVars, listingVars, agentVars, runVars, saveVars, pageVars>>

\* compas/test.py lines 1061-1063: a 403 before the last attempt, the
\* request is sent again with another User-Agent, inside the same block.
Retry(t) ==
    /\ pc = "gather"
    /\ variant = "compass"
    /\ tasks[t].at = "get"
    /\ may_retry(tasks[t].attempt)
    /\ tasks' = [tasks EXCEPT ![t].attempt = @ + 1]
    /\ UNCHANGED <<pc, variant, concurrency, semaphore, parsed_listings, textVars, treeVars, listingVars, agentVars, runVars, saveVars, pageVars>>

\* The request raises (timeout, connection error) or raise_for_status
\* raises on the response (for compas/test.py a 403 on the last attempt,
\* any other error status on any attempt): the exception leaves the
\* `async with` block, the except clause gives None.
Fail(t) ==
    /\ pc = "gather"
    /\ tasks[t].at = "get"
    /\ semaphore' = release(semaphore)
    /\ tasks' = [tasks EXCEPT ![t].at = "done", ![t].result = "none"]
    /\ UNCHANGED <<pc, variant, concurrency, parsed_listings, textVars, treeVars, listingVars, agentVars, runVars, saveVars, pageVars>>

\* asyncio.gather returns when every task is done; the results with a
\* record make the returned list.
GatherReturns ==
    /\ pc = "gather"
    /\ \A t \in DOMAIN tasks : tasks[t].at = "done"
    /\ parsed_listings' = parsed(tasks)
    /\ pc' = "returned"
    /\ UNCHANGED <<variant, concurrency, semaphore, tasks, textVars, treeVars, listingVars, agentVars, runVars, saveVars, pageVars>>

NextBatch ==
    \/ \E t \in DOMAIN tasks : Acquire(t)
    \/ \E t \in DOMAIN tasks : Respond(t)
    \/ \E t \in DOMAIN tasks : Retry(t)
    \/ \E t \in DOMAIN tasks : Fail(t)
    \/ GatherReturns

SpecBatch == InitBatch /\ [][NextBatch]_vars

\* The batch under the scheduling the event loop gives: while a step of
\* the batch is possible, one is taken.  A request in flight returns (each
\* has timeout=30.0), a free permit goes to a task that waits in
\* `async with semaphore`, and gather returns once every task is done.
SpecBatchFair == SpecBatch /\ WF_vars(NextBatch)

\* The detail-page requests in flight, and the permits held.
InFlight == Cardinality({t \in DOMAIN tasks : tasks[t].at = "get"})
PermitsHeld == concurrency - semaphore

\* C10: in every state of a batch the number of detail-page requests in
\* flight is at most concurrency and equals the number of permits held (so
\* a request that failed has given its permit back), and when the batch
\* has ended all concurrency permits are free.
C10_SemaphoreBound ==
    pc \in {"gather", "returned"} =>
        /\ InFlight <= concurrency
        /\ InFlight = PermitsHeld
        /\ semaphore >= 0
        /\ pc = "returned" => semaphore = concurrency

\* A batch with more urls than permits has ended after a failed request,
\* with a task that had to retry.
C10_Witness ==
    /\ pc = "returned"
    /\ Len(tasks) > concurrency
    /\ \E t \in DOMAIN tasks : tasks[t].result = "none"
    /\ \E t \in DOMAIN tasks : tasks[t].attempt = max_retries - 1

\* The bound was reached while a task was waiting for a permit.
C10_WitnessSaturated ==
    /\ pc = "gather"
    /\ InFlight = concurrency
    /\ \E t \in DOMAIN tasks : tasks[t].at = "acquire"

----------------------------------------------------------------------------
(* Specification SpecLinks: the list-page requests of                      *)
(* get_all_listing_links_async (compas/test.py).  The first page is asked  *)
(* for inside `async with semaphore`; what it answers decides between      *)
(* returning, one task per remaining page (the page count is known) and    *)
(* batches of concurrency * 2 pages until a batch comes back empty.        *)

\* How many pages a search with a known page count has beyond the first.
MaxPages == 3

\* A fetch_page_links coroutine that gather has not started yet.
Created == [at |-> "created", attempt |-> 0, result |-> "pending"]

\* compas/test.py line 522
batch_size == concurrency * 2

InitLinks ==
    /\ pc = "first_page"
    /\ TextIdle
    /\ TreeIdle
    /\ ListingIdle
    /\ AgentIdle
    /\ RunIdle
    /\ SaveIdle
    /\ PageIdle
    /\ variant = "first"
    /\ concurrency \in 1..MaxConcurrency
    /\ semaphore = acquire(concurrency)
    /\ tasks = <<>>
    /\ parsed_listings = <<>>

\* Lines 367-387, 459-467: the first request raises (a timeout, a
\* connection error), or its answer has an error status (raise_for_status,
\* also after the last 403).  The handler of line 459 sets all_links and
\* total_pages, not first_links, which line 417 has not bound yet: line 467
\* reads it and raises UnboundLocalError out of the call.
FirstPageFails ==
    /\ pc = "first_page"
    /\ semaphore' = release(semaphore)
    /\ variant' = "first_failed"
    /\ pc' = "raised"
    /\ UNCHANGED <<concurrency, tasks, parsed_listings, textVars, treeVars, listingVars, agentVars, runVars, saveVars, pageVars>>

\* Lines 417-467: the first page held fewer than num_per_page links, or an
\* exception came after line 417; the links collected so far are returned.
FirstPageLast ==
    /\ pc = "first_page"
    /\ semaphore' = release(semaphore)
    /\ pc' = "links_returned"
    /\ UNCHANGED <<variant, concurrency, tasks, parsed_listings, textVars, treeVars, listingVars, agentVars, runVars, saveVars, pageVars>>

\* Lines 470-489: the answer gave the number of items; one
\* fetch_with_semaphore task per page of range(1, total_pages).
FirstPageKnown ==
    /\ pc = "first_page"
    /\ semaphore' = release(semaphore)
    /\ \E total_pages \in 1..(MaxPages + 1) :
          tasks' = [t \in 1..(total_pages - 1) |-> Waiting]
    /\ variant' = "known"
    /\ pc' = "pages"
    /\ UNCHANGED <<concurrency, parsed_listings, textVars, treeVars, listingVars, agentVars, runVars, saveVars, pageVars>>

\* Lines 519-539: no number of items in the answer; a batch of batch_size
\* fetch_page_links coroutines is handed to gather.
FirstPageUnknown ==
    /\ pc = "first_page"
    /\ semaphore' = release(semaphore)
    /\ tasks' = [t \in 1..batch_size |-> Created]
    /\ variant' = "unknown"
    /\ pc' = "pages"
    /\ UNCHANGED <<concurrency, parsed_listings, textVars, treeVars, listingVars, agentVars, runVars, saveVars, pageVars>>

\* fetch_with_semaphore, line 477: the semaphore is entered, then
\* fetch_page_links sends its request.
AcquirePage(t) ==
    /\ pc = "pages"
    /\ tasks[t].at = "acquire"
    /\ ~locked(semaphore)
    /\ semaphore' = acquire(semaphore)
    /\ tasks' = [tasks EXCEPT ![t].at = "post"]
    /\ UNCHANGED <<pc, variant, concurrency, parsed_listings, textVars, treeVars, listingVars, agentVars, runVars, saveVars, pageVars>>

\* fetch_page_links called as it is, lines 528-532: the request is sent
\* when gather starts the coroutine.
StartPage(t) ==
    /\ pc = "pages"
    /\ tasks[t].at = "created"
    /\ tasks' = [tasks EXCEPT ![t].at = "post"]
    /\ UNCHANGED <<pc, variant, concurrency, semaphore, parsed_listings, textVars, treeVars, listingVars, agentVars, runVars, saveVars, pageVars>>

\* fetch_page_links, lines 213-216: a 403 before the last attempt, the
\* request is sent again.
RetryPage(t) ==
    /\ pc = "pages"
    /\ tasks[t].at = "post"
    /\ tasks[t].attempt < max_retries - 1
    /\ tasks' = [tasks EXCEPT ![t].attempt = @ + 1]
    /\ UNCHANGED <<pc, variant, concurrency, semaphore, parsed_listings, textVars, treeVars, listingVars, agentVars, runVars, saveVars, pageVars>>

\* fetch_page_links returns (page, links), with no links after an
\* exception; fetch_with_semaphore leaves the semaphore.
PageDone(t) ==
    /\ pc = "pages"
    /\ tasks[t].at = "post"
    /\ semaphore' = IF variant = "known" THEN release(semaphore) ELSE semaphore
    /\ \E outcome \in {"links", "empty"} :
          tasks' = [tasks EXCEPT ![t].at = "done", ![t].result = outcome]
    /\ UNCHANGED <<pc, variant, concurrency, parsed_listings, textVars, treeVars, listingVars, agentVars, runVars, saveVars, pageVars>>

\* Lines 489-517, and 560-569 for a batch that ends the loop.
LinksReturned ==
    /\ pc = "pages"
    /\ \A t \in DOMAIN tasks : tasks[t].at = "done"
    /\ pc' = "links_returned"
    /\ UNCHANGED <<batchVars, textVars, treeVars, listingVars, agentVars, runVars, saveVars, pageVars>>

\* Lines 525-532: a batch that brought links is followed by the next one.
NextBatchOfPages ==
    /\ pc = "pages"
    /\ variant = "unknown"
    /\ \A t \in DOMAIN tasks : tasks[t].at = "done"
    /\ \E t \in DOMAIN tasks : tasks[t].result = "links"
    /\ tasks' = [t \in 1..batch_size |-> Created]
    /\ UNCHANGED <<pc, variant, concurrency, semaphore, parsed_listings, textVars, treeVars, listingVars, agentVars, runVars, saveVars, pageVars>>

NextLinks ==
    \/ FirstPageFails
    \/ FirstPageLast
    \/ FirstPageKnown
    \/ FirstPageUnknown
    \/ \E t \in DOMAIN tasks : AcquirePage(t)
    \/ \E t \in DOMAIN tasks : StartPage(t)
    \/ \E t \in DOMAIN tasks : RetryPage(t)
    \/ \E t \in DOMAIN tasks : PageDone(t)
    \/ LinksReturned
    \/ NextBatchOfPages

SpecLinks == InitLinks /\ [][NextLinks]_vars

\* The list-page requests in flight.
PagesInFlight ==
    (IF pc = "first_page" THEN 1 ELSE 0)
    + Cardinality({t \in DOMAIN tasks : tasks[t].at = "post"})

\* C11: every list-page request of get_all_listing_links_async is sent
\* with a permit of the semaphore held, whether or not the page count is
\* known, so never more than concurrency list-page requests are in flight.
C11_ListPagesBounded ==
    pc \in {"first_page", "pages", "links_returned"} =>
        /\ PagesInFlight = concurrency - semaphore
        /\ PagesInFlight <= concurrency

\* C11 where the page count is known: the requests in flight are the
\* permits held, at most concurrency.
C11_KnownBranchBounded ==
    (pc \in {"first_page", "pages", "links_returned"} /\ variant \in {"first", "known"}) =>
        /\ PagesInFlight = concurrency - semaphore
        /\ PagesInFlight <= concurrency

----------------------------------------------------------------------------
(* Failure isolation in a batch of listing fetches                         *)

\* The tasks other than t are as they were.
SiblingsUntouched(t) ==
    /\ DOMAIN tasks' = DOMAIN tasks
    /\ \A u \in DOMAIN tasks : u # t => tasks'[u] = tasks[u]

\* C12, the steps: a request that fails (timeout, HTTP error, exception)
\* ends its own task with no record and leaves every sibling task - waiting,
\* in flight or done, with the outcome it has - as it was, and the batch
\* goes on.
C12_FailureLeavesSiblings ==
    [][\A t \in DOMAIN tasks : (pc = "gather" /\ Fail(t)) =>
            (SiblingsUntouched(t) /\ tasks'[t].result = "none" /\ pc' = "gather")]_vars

\* C12, the returned list: the batch returns only when every task is done,
\* and the list holds, in order, exactly the urls whose own fetch,
\* extraction and normalization gave a record; so succeeded <= attempted.
C12_FailureIsolation ==
    pc = "returned" =>
        /\ \A t \in DOMAIN tasks : tasks[t].at = "done"
        /\ \A t \in DOMAIN tasks :
              (tasks[t].result = "dto") <=> (\E i \in DOMAIN parsed_listings : parsed_listings[i] = t)
        /\ \A i, j \in DOMAIN parsed_listings : i < j => parsed_listings[i] < parsed_listings[j]
        /\ Len(parsed_listings) <= Len(tasks)

\* A batch returned a record for the last url after the first url's
\* request had failed while the last was in flight or waiting.
C12_Witness ==
    /\ pc = "returned"
    /\ Len(tasks) >= 2
    /\ tasks[1].result = "none"
    /\ parsed_listings = <<Len(tasks)>>

----------------------------------------------------------------------------
(* RwholmesParser.extract_agents: the merge of agent fragments             *)
(* (members_moodys.py 561-704)                                             *)

\* str.lower(), on the letters the names below are written with.
LowerSym(c) ==
    CASE c = "J" -> "j"
      [] c = "O" -> "o"
      [] c = "A" -> "a"
      [] c = "L" -> "l"
      [] OTHER -> c

Lower(s) == [i \in 1..Len(s) |-> LowerSym(s[i])]

\* A dict key that is the name as it came.
AgentKeyAsGiven(name) == name

\* key = name.strip().lower()
AgentKey(name) == Lower(Strip(name))

\* `x.strip() if x else None`
StripOrNone(x) == IF Truthy(x) THEN PyStr(Strip(Val(x))) ELSE PyNone

\* `if x: agent.field = x.strip()`: the later fragment wins.
FillLastWins(had, x) == IF Truthy(x) THEN PyStr(Strip(Val(x))) ELSE had

\* `if x and not agent.field: agent.field = x.strip()`
Fill(had, x) == IF Truthy(x) /\ ~Truthy(had) THEN PyStr(Strip(Val(x))) ELSE had

\* add_agent(name, title, photo_url, phone, link) on the agents dict d.
add_agent(d, f) ==
    IF ~Truthy(f.name) THEN d
    ELSE LET k == AgentKey(Val(f.name))
         IN IF ~HasKey(d, k)
            THEN DictSet(d, k, [name |-> PyStr(Strip(Val(f.name))),
                                title |-> StripOrNone(f.title),
                                phone_primary |-> StripOrNone(f.phone),
                                photo_url |-> StripOrNone(f.photo_url),
                                social_media |-> StripOrNone(f.link)])
            ELSE LET agent == Lookup(d, k)
                 IN DictSet(d, k, [name |-> agent.name,
                                   title |-> Fill(agent.title, f.title),
                                   phone_primary |-> Fill(agent.phone_primary, f.phone),
                                   photo_url |-> Fill(agent.photo_url, f.photo_url),
                                   social_media |-> Fill(agent.social_media, f.link)])

\* How many add_agent calls a page gives rise to.
MaxFragments == 2

\* Every combination of the values a block can find.
AllFragments ==
    [name : {PyNone, PyStr(<<>>), PyStr(<<"J", "o">>), PyStr(<<" ", "j", "O", " ">>),
             PyStr(<<"A", "l">>)},
     title : {PyNone, PyStr(<<" ", "VP", " ">>)},
     photo_url : {PyNone, PyStr(<<"https:", "/", "/", "rwholmes.com", "/", "jo.jpg">>)},
     phone : {PyNone, PyStr(<<" ">>), PyStr(<<"(508) 651-9017">>)},
     link : {PyNone, PyStr(<<"/", "agents", "/", "jo">>)}]

\* What the blocks of a page hand to add_agent: a name or none, with or
\* without a title and a phone, and either a photo or a link.
Fragments ==
    {f \in AllFragments : (f.photo_url = PyNone) # (f.link = PyNone)}

InitAgents ==
    /\ pc = "add_agent"
    /\ TextIdle
    /\ TreeIdle
    /\ ListingIdle
    /\ BatchIdle
    /\ RunIdle
    /\ SaveIdle
    /\ PageIdle
    /\ agents = <<>>
    /\ fragments = <<>>

\* One of the add_agent calls of extract_agents.
AddAgent ==
    /\ pc = "add_agent"
    /\ Len(fragments) < MaxFragments
    /\ \E f \in Fragments :
          /\ agents' = add_agent(agents, f)
          /\ fragments' = Append(fragments, f)
    /\ UNCHANGED <<pc, textVars, treeVars, listingVars, batchVars, runVars, saveVars, pageVars>>

\* return list(agents.values())
AgentsReturned ==
    /\ pc = "add_agent"
    /\ pc' = "agents"
    /\ UNCHANGED <<textVars, treeVars, listingVars, batchVars, agentVars, runVars, saveVars, pageVars>>

NextAgents == AddAgent \/ AgentsReturned

SpecAgents == InitAgents /\ [][NextAgents]_vars

\* The normalized name of a fragment or record: trimmed and lower-cased.
NormalizedName(x) == Lower(Strip(Val(x.name)))

\* The fragment carries the field: a value that is not blank.
Carries(x) == IsStr(x) /\ Strip(Val(x)) # <<>>

\* The records of the result with the normalized name of fragment f.
RecordsFor(f) == {i \in DOMAIN agents : NormalizedName(agents[i].v) = NormalizedName(f)}

\* C13: after any sequence of add_agent calls the result has at most one
\* record per normalized name, exactly one for every named fragment, and
\* that record carries every field that some fragment with that normalized
\* name carried: two fragments with complementary fields give one record
\* with both fields populated.
C13_AgentMerge ==
    /\ \A i, j \in DOMAIN agents :
          NormalizedName(agents[i].v) = NormalizedName(agents[j].v) => i = j
    /\ \A n \in DOMAIN fragments :
          LET f == fragments[n]
          IN Truthy(f.name) =>
                /\ Cardinality(RecordsFor(f)) = 1
                /\ \A i \in RecordsFor(f) :
                      /\ Carries(f.title) => Carries(agents[i].v.title)
                      /\ Carries(f.phone) => Carries(agents[i].v.phone_primary)
                      /\ Carries(f.photo_url) => Carries(agents[i].v.photo_url)
                      /\ Carries(f.link) => Carries(agents[i].v.social_media)

\* Two fragments whose names differ in case and blanks, the first with a
\* title only and the second with a phone only, were merged into one
\* record with both.
C13_Witness ==
    /\ pc = "agents"
    /\ Len(fragments) = 2
    /\ fragments[1].name = PyStr(<<"J", "o">>)
    /\ fragments[2].name = PyStr(<<" ", "j", "O", " ">>)
    /\ Carries(fragments[1].title) /\ ~Carries(fragments[1].phone)
    /\ Carries(fragments[2].phone) /\ ~Carries(fragments[2].title)
    /\ Len(agents) = 1
    /\ agents[1].v.title = PyStr(<<"VP">>)
    /\ agents[1].v.phone_primary = PyStr(<<"(508) 651-9017">>)

----------------------------------------------------------------------------
(* Specification SpecStats: parse_listing_from_api_data on listings that   *)
(* differ in their subStats, or in their badges and status.                *)

\* How many entries a generated subStats list has at most.
MaxStats == 2

Stat(title, subtitle) == PyDict(<<Entry("title", PyStr(<<title>>)), Entry("subtitle", subtitle)>>)

\* Entries with a usable value, with a placeholder ('Unavailable', '-', ''),
\* with a value that is no integer, without a subtitle, with a subtitle
\* that is no string.
StatEntries ==
    { Stat("sqft", PyStr(<<"2", ",", "5", "0", "0">>)), Stat("sqft", PyStr(<<"8", "5", "0">>)),
      Stat("sqft", PyStr(<<"Unavailable">>)), Stat("sqft", PyStr(<<"-">>)),
      Stat("sqft", PyStr(<<"2", ".", "5", "K">>)),
      Stat("acres", PyStr(<<"2", ".", "5">>)), Stat("acres", PyStr(<<"1", "0">>)),
      Stat("acres", PyStr(<<"Unavailable">>)),
      Stat("beds", PyStr(<<"3">>)),
      PyDict(<<Entry("title", PyStr(<<"sqft">>))>>),
      Stat("sqft", PyNone) }

StatsListings ==
    { PyDict(<<Entry("pageLink", PyStr(<<"/", "homes-for-sale", "/", "1-main-st", "/">>)),
               Entry("location", PyDict(<<Entry("prettyAddress", PyStr(<<"1 Main St, Springfield">>))>>))>>
             \o stats) :
        stats \in Opt("subStats", {PyList(l) : l \in SeqsUpTo(StatEntries, MaxStats)} \cup {PyNone}) }

\* Status codes of the map, other integers, values that are no integer;
\* badges with and without a corner badge.
StatusListings ==
    { PyDict(<<Entry("pageLink", PyStr(<<"/", "homes-for-sale", "/", "1-main-st", "/">>)),
               Entry("location", PyDict(<<Entry("prettyAddress", PyStr(<<"1 Main St, Springfield">>))>>))>>
             \o badges \o code) :
        badges \in Opt("badges",
                       {PyDict(<<>>), PyDict(<<Entry("cornerBadges", PyList(<<>>))>>),
                        PyDict(<<Entry("cornerBadges",
                                       PyList(<<PyDict(<<Entry("displayText", PyStr(<<"Coming Soon">>))>>)>>))>>),
                        PyDict(<<Entry("cornerBadges", PyList(<<PyDict(<<>>)>>))>>),
                        PyDict(<<Entry("cornerBadges", PyStr(<<"x">>))>>),
                        PyNone}),
        code \in Opt("status", {PyInt(0), PyInt(7), PyInt(8), PyInt(9), PyInt(10), PyInt(12),
                                PyInt(14), PyInt(99), PyNone, PyBool(TRUE), PyStr(<<"x">>),
                                PyList(<<>>), PyList(<<PyInt(12)>>), PyDict(<<>>)}) }

InitStats ==
    /\ pc = "listing_data"
    /\ TextIdle
    /\ TreeIdle
    /\ BatchIdle
    /\ AgentIdle
    /\ RunIdle
    /\ SaveIdle
    /\ PageIdle
    /\ url = <<>>
    /\ dto = PyNone
    /\ listing_data \in StatsListings \cup StatusListings

SpecStats == InitStats /\ [][NextApi]_vars

\* The subStats entries of the listing given to the normalizer.
InputStats == Val(Get(Val(listing_data), "subStats", PyList(<<>>)))

\* Entry i is a mapping of the unit, with a text as its subtitle, and has a
\* usable value: what is left of it without separators and the '-'
\* placeholder is not empty and not 'Unavailable'.
Usable(i, unit) ==
    /\ IsDict(InputStats[i])
    /\ IsStr(Get(Val(InputStats[i]), "subtitle", PyStr(<<>>)))
    /\ Get(Val(InputStats[i]), "title", PyStr(<<>>)) = PyStr(<<unit>>)
    /\ Subtitle(Val(InputStats[i])) \notin {<<>>, <<"Unavailable">>}

\* The first usable entry of the unit, 0 if there is none.
FirstUsable(unit) ==
    IF \E i \in DOMAIN InputStats : Usable(i, unit)
    THEN CHOOSE i \in DOMAIN InputStats :
            Usable(i, unit) /\ \A j \in 1..(i - 1) : ~Usable(j, unit)
    ELSE 0

C14_WitnessUnavailable ==
    /\ pc = "api_dto"
    /\ IsDto(dto)
    /\ InputStats = <<Stat("acres", PyStr(<<"2", ".", "5">>)), Stat("sqft", PyStr(<<"Unavailable">>))>>
    /\ Val(dto).size = PyStr(<<"2", ".", "5", " acres">>)

----------------------------------------------------------------------------
(* Specification SpecFields: extract_listing_data on listings that differ  *)
(* in their terms, size, details, media and contacts.                      *)

\* How many items a generated details list and a contacts list have at most.
MaxDetails == 2
MaxContacts == 2

Listing(members) == Envelope(PyDict(<<Entry("listingIdSHA", PyStr(<<"abc123">>))>> \o members))

SizeTrees ==
    { Listing(size) :
        size \in Opt("size", {PyDict(<<Entry("squareFeet", v)>>) :
                                 v \in {PyInt(0), PyInt(850), PyInt(2500), PyInt(1234567), PyNone,
                                        PyBool(TRUE), PyStr(<<"2500">>), PyStr(<<>>), PyList(<<PyInt(1)>>)}}
                             \cup {PyDict(<<>>), PyNone, PyList(<<>>), PyInt(850)}) }

\* Items of a details list: with a name, without, with a name that is the
\* key of an unnamed neighbour, with a name that is no string, no mapping.
DetailItems ==
    { PyDict(<<Entry("name", PyStr(<<"Interior">>)), Entry("value", PyStr(<<"x">>))>>),
      PyDict(<<Entry("name", PyStr(<<"Interior">>))>>),
      PyDict(<<Entry("value", PyStr(<<"y">>))>>),
      PyDict(<<Entry("name", PyStr(<<"item_", "1">>))>>),
      PyDict(<<Entry("name", PyInt(5))>>),
      PyStr(<<"x">>),
      PyInt(1) }

KeyDetailItems ==
    { PyDict(<<Entry("key", PyStr(<<"Taxes">>)), Entry("value", PyStr(<<"$1">>))>>),
      PyDict(<<Entry("name", PyStr(<<"Tax">>)), Entry("key", PyStr(<<"Taxes">>))>>),
      PyDict(<<Entry("key", PyNone)>>),
      PyStr(<<"x">>) }

DetailMappings ==
    { PyDict(<<>>),
      PyDict(<<Entry("Interior", PyDict(<<Entry("name", PyStr(<<"Interior">>))>>))>>),
      PyDict(<<Entry("item_", PyStr(<<"x">>)), Entry("Interior", PyList(<<>>))>>) }

DetailsTrees ==
    { Listing(<<Entry("detailedInfo", info)>>) :
        info \in {PyNone, PyStr(<<"x">>), PyList(<<PyStr(<<"listingDetails">>)>>)}
                 \cup { PyDict(details \o key_details) :
                          details \in Opt("listingDetails",
                                          {PyList(l) : l \in SeqsUpTo(DetailItems, MaxDetails)}
                                          \cup DetailMappings \cup {PyNone, PyStr(<<"x">>)}),
                          key_details \in Opt("keyDetails",
                                              {PyList(l) : l \in SeqsUpTo(KeyDetailItems, 1)}
                                              \cup {PyDict(<<>>), PyDict(<<Entry("Taxes", PyStr(<<"$1">>))>>)}) } }

Contacts ==
    { PyDict(<<Entry("contactName", PyStr(<<"Jo">>)), Entry("email", PyStr(<<"jo", "@", "x.co">>)),
               Entry("phone", PyStr(<<"555">>)), Entry("websiteURL", PyStr(<<"/", "agents", "/", "jo">>)),
               Entry("profileImageURL", PyStr(<<"/", "/", "cdn", "/", "jo.jpg">>))>>),
      PyDict(<<Entry("email", PyStr(<<"al", "@", "x.co">>))>>),
      PyDict(<<Entry("contactName", PyStr(<<>>)), Entry("phone", PyStr(<<"555">>))>>),
      PyDict(<<Entry("contactName", PyNone)>>),
      PyDict(<<Entry("contactName", PyStr(<<"Al">>)), Entry("email", PyStr(<<" ">>))>>),
      PyDict(<<Entry("contactName", PyStr(<<"Al">>)), Entry("email", PyStr(<<"not-an-email">>))>>),
      PyDict(<<Entry("contactName", PyInt(5))>>),
      PyDict(<<Entry("contactName", PyStr(<<"Jo">>)), Entry("websiteURL", PyNone)>>),
      PyStr(<<"x">>) }

ContactTrees ==
    { Listing(contacts) :
        contacts \in Opt("fullContacts", {PyList(l) : l \in SeqsUpTo(Contacts, MaxContacts)}
                                         \cup {PyNone, PyDict(<<>>), PyStr(<<"x">>)}) }

CodeTrees ==
    { Listing(localized \o code) :
        localized \in Opt("localizedStatus", {PyStr(<<"Active">>), PyStr(<<>>)}),
        code \in Opt("status", {PyInt(0), PyInt(7), PyInt(8), PyInt(9), PyInt(10), PyInt(12),
                                PyInt(14), PyInt(99), PyList(<<PyInt(12)>>), PyDict(<<>>)}) }

FieldTrees == TermsTrees \cup MediaTrees \cup SizeTrees \cup DetailsTrees \cup ContactTrees \cup CodeTrees

InitFields ==
    /\ pc = "listing"
    /\ text = <<>>
    /\ start_marker = <<>>
    /\ json_str = PyNone
    /\ compass_data = PyNone
    /\ TreeIdle
    /\ BatchIdle
    /\ AgentIdle
    /\ RunIdle
    /\ SaveIdle
    /\ PageIdle
    /\ url = ListingUrl
    /\ dto = PyNone
    /\ listing_data = PyNone
    /\ initial_data \in FieldTrees

SpecFields == InitFields /\ [][NextListing]_vars

\* A field that is None or a string that is not empty.
NoneOrNonEmptyStr(x) == Tag(x) = "none" \/ NonEmptyStr(x)

\* C15: in a record of extract_listing_data the prices and the size are
\* None or a non-empty string; a price object without 'formatted' gives a
\* None price.
C15_NoEmptyPriceOrSize ==
    (pc = "dto" /\ IsDto(dto)) =>
        /\ NoneOrNonEmptyStr(Val(dto).sale_price)
        /\ NoneOrNonEmptyStr(Val(dto).lease_price)
        /\ NoneOrNonEmptyStr(Val(dto).size)

\* The size alone: None or a non-empty string.
C15_SizeNoneOrNonEmpty ==
    (pc = "dto" /\ IsDto(dto)) => NoneOrNonEmptyStr(Val(dto).size)

\* C16: the photos of a record hold each URL at most once, whatever the
\* media list repeats.
C16_PhotosUnique ==
    (pc = "dto" /\ IsDto(dto) /\ IsList(Val(dto).photos)) =>
        \A i, j \in 1..Len(Val(Val(dto).photos)) :
            Val(Val(dto).photos)[i] = Val(Val(dto).photos)[j] => i = j

\* The photos follow the media list in order, one for every photo item.
C16_PhotosInMediaOrder ==
    (pc = "dto" /\ IsDto(dto) /\ IsList(Val(dto).photos)) =>
        LET media == Val(Lookup(InputListing, <<"media">>))
            shown == SelectSeq(media, LAMBDA m : EqualsInt(Get(Val(m), "category", PyInt(0)), 0)
                                                 /\ HasKey(Val(m), <<"originalUrl">>))
        IN Val(Val(dto).photos) =
              [i \in 1..Len(shown) |-> PyStr(Absolute(Val(Lookup(Val(shown[i]), <<"originalUrl">>))))]

\* The value the details of the given listing are converted from.
InputDetails ==
    LET detailed_info == Val(Lookup(InputListing, <<"detailedInfo">>)) IN
    IF HasKey(detailed_info, <<"listingDetails">>) THEN Lookup(detailed_info, <<"listingDetails">>)
    ELSE Lookup(detailed_info, <<"keyDetails">>)

\* The key of item i (counted from 1) of a details list: its 'name', or
\* 'item_' and its position counted from 0.
KeyOfItem(items, i) ==
    IF IsDict(items[i]) /\ HasKey(Val(items[i]), <<"name">>)
    THEN Val(Lookup(Val(items[i]), <<"name">>))
    ELSE <<"item_", SymOf(i - 1)>>

\* The given listing with d as its listingDetails.
WithDetails(d) == Listing(<<Entry("detailedInfo", PyDict(<<Entry("listingDetails", d)>>))>>)

\* C17: the details of a record made from a list are a mapping that holds
\* every item under its 'name', or under 'item_{i}' if it has none (the
\* later item where two share a key), and nothing else; details given as a
\* mapping are that mapping; converting the details of a record again
\* gives the same mapping.
C17_DetailsIdempotent ==
    (/\ pc = "dto" /\ IsDto(dto)
     /\ HasKey(InputListing, <<"detailedInfo">>)
     /\ IsDict(Lookup(InputListing, <<"detailedInfo">>))
     /\ \/ HasKey(Val(Lookup(InputListing, <<"detailedInfo">>)), <<"listingDetails">>)
        \/ HasKey(Val(Lookup(InputListing, <<"detailedInfo">>)), <<"keyDetails">>)) =>
        LET details == Val(dto).listing_details
            again == extract_listing_data(WithDetails(details), url)
        IN /\ IsList(InputDetails) =>
                /\ IsDict(details)
                /\ \A i \in 1..Len(Val(InputDetails)) :
                      /\ HasKey(Val(details), KeyOfItem(Val(InputDetails), i))
                      /\ (\A j \in (i + 1)..Len(Val(InputDetails)) :
                              KeyOfItem(Val(InputDetails), j) # KeyOfItem(Val(InputDetails), i))
                          => Lookup(Val(details), KeyOfItem(Val(InputDetails), i)) = Val(InputDetails)[i]
                /\ \A n \in 1..Len(Val(details)) :
                      \E i \in 1..Len(Val(InputDetails)) :
                          Val(details)[n].k = KeyOfItem(Val(InputDetails), i)
           /\ IsDict(InputDetails) => (IsDict(details) /\ Val(details) = Val(InputDetails))
           /\ IsDict(details) =>
                (IsDto(again) /\ IsDict(Val(again).listing_details)
                 /\ Val(Val(again).listing_details) = Val(details))

\* A list of two items, one named and one not, became a mapping of two
\* entries, and converting that mapping again leaves it as it is.
C17_Witness ==
    /\ pc = "dto"
    /\ IsDto(dto)
    /\ HasKey(InputListing, <<"detailedInfo">>)
    /\ IsDict(Lookup(InputListing, <<"detailedInfo">>))
    /\ HasKey(Val(Lookup(InputListing, <<"detailedInfo">>)), <<"listingDetails">>)
    /\ IsList(InputDetails)
    /\ Len(Val(InputDetails)) = 2
    /\ IsDict(Val(dto).listing_details)
    /\ Len(Val(Val(dto).listing_details)) = 2
    /\ Val(Val(dto).listing_details)[1].k = <<"Interior">>
    /\ Val(Val(dto).listing_details)[2].k = <<"item_", "1">>
    /\ ConvertDetails(Val(dto).listing_details) = Val(dto).listing_details

\* Details given as a mapping are in the record as they were given.
C17_WitnessMapping ==
    /\ pc = "dto"
    /\ IsDto(dto)
    /\ HasKey(InputListing, <<"detailedInfo">>)
    /\ IsDict(Lookup(InputListing, <<"detailedInfo">>))
    /\ HasKey(Val(Lookup(InputListing, <<"detailedInfo">>)), <<"listingDetails">>)
    /\ IsDict(InputDetails)
    /\ Len(Val(InputDetails)) = 2
    /\ IsDict(Val(dto).listing_details)
    /\ Val(Val(dto).listing_details) = Val(InputDetails)

\* C19: no agent of a record has a missing or empty name, whatever the
\* contacts of the listing lack.
C19_NoNamelessAgent ==
    (pc = "dto" /\ IsDto(dto) /\ IsList(Val(dto).agents)) =>
        \A i \in 1..Len(Val(Val(dto).agents)) : NonEmptyStr(Val(Val(dto).agents)[i].name)

\* Every contact of the listing has an agent in the record, in order.
C19_AgentPerContact ==
    (pc = "dto" /\ IsDto(dto) /\ IsList(Val(dto).agents)) =>
        LET contacts == Val(Lookup(InputListing, <<"fullContacts">>)) IN
        /\ Len(Val(Val(dto).agents)) = Len(contacts)
        /\ \A i \in 1..Len(contacts) :
              Val(Val(dto).agents)[i].name = Get(Val(contacts[i]), "contactName", PyNone)

\* The listing given to the API normalizer has an integer status code and
\* no corner badge.
ApiCodeGiven ==
    /\ IsDict(listing_data)
    /\ Tag(Get(Val(listing_data), "status", PyNone)) = "int"
    /\ LET badges == Get(Val(listing_data), "badges", PyDict(<<>>)) IN
          IsDict(badges) /\ ~Truthy(Get(Val(badges), "cornerBadges", PyList(<<>>)))

\* C18, _map_to_dto_from_api: with an integer status code and no corner
\* badge there is a record, and its status is the label of a code of the
\* map (9, 12, 14: 'Active') and 'Status c' for every other code c.
C18_StatusCodeMapping ==
    (pc = "api_dto" /\ ApiCodeGiven) =>
        LET c == Get(Val(listing_data), "status", PyNone) IN
        /\ IsDto(dto)
        /\ Val(dto).listing_status =
              IF Val(c) \in {9, 12, 14} THEN PyStr(<<"Active">>) ELSE PyStr(<<"Status ", SymOf(Val(c))>>)

\* C18, extract_listing_data: without a localized status and with an
\* integer status code there is a record, and its status is the label of a
\* code of the map and 'Status c' for every other code c.
C18_ListingStatusCodes ==
    (/\ pc = "dto"
     /\ initial_data \in CodeTrees
     /\ ~Truthy(Get(InputListing, "localizedStatus", PyStr(<<>>)))
     /\ Tag(Get(InputListing, "status", PyNone)) = "int") =>
        LET c == Val(Get(InputListing, "status", PyNone)) IN
        /\ IsDto(dto)
        /\ Val(dto).listing_status =
              IF c \in StatusMap THEN PyStr(StatusLabel(c)) ELSE PyStr(<<"Status ", SymOf(c)>>)

\* A status code that is a list or a mapping leaves no record, in either
\* normalizer.
C18_UnhashableCodeFails ==
    /\ (pc = "api_dto" /\ IsDict(listing_data)
        /\ Get(Val(listing_data), "badges", PyDict(<<>>)) = PyDict(<<>>)
        /\ Get(Val(listing_data), "status", PyNone) = PyList(<<PyInt(12)>>)) => ~IsDto(dto)
    /\ (pc = "dto" /\ initial_data \in CodeTrees
        /\ ~Truthy(Get(InputListing, "localizedStatus", PyStr(<<>>)))
        /\ Tag(Get(InputListing, "status", PyNone)) \in {"list", "dict"}) => ~IsDto(dto)

----------------------------------------------------------------------------
(* Specification SpecRun: CompassParser.run with use_api=False, the loop   *)
(* over the listing urls (compass.py 1285-1303)                            *)

RECURSIVE find_listing(_)
RECURSIVE FindListingIn(_, _)

\* lines 692-694: the first truthy result over the values of a dict.
FindListingIn(d, i) ==
    IF i > Len(d) THEN PyNone
    ELSE LET res == find_listing(d[i].v) IN
        IF Truthy(res) THEN res ELSE FindListingIn(d, i + 1)

\* lines 688-695
find_listing(tree) ==
    IF ~IsDict(tree) THEN PyNone
    ELSE IF HasKey(Val(tree), <<"listingIdSHA">>) \/ HasKey(Val(tree), <<"compassPropertyId">>)
    THEN tree
    ELSE FindListingIn(Val(tree), 1)

\* _find_listing_data(data) for a dict: the listing, None, or Raised where
\* `in` or the subscript is applied to a value that does not take it.
find_listing_data(data) ==
    LET relation == Get(Val(data), "listingRelation", PyNone) IN
    IF HasKey(Val(data), <<"listingRelation">>) /\ ~CanContain(relation) THEN Raised
    ELSE IF HasKey(Val(data), <<"listingRelation">>) /\ Member(relation, "listing")
    THEN IF IsDict(relation) THEN Lookup(Val(relation), <<"listing">>) ELSE Raised
    ELSE IF HasKey(Val(data), <<"listing">>) THEN Lookup(Val(data), <<"listing">>)
    ELSE find_listing(data)

\* The first truthy of the values, the last if none is: `a or b or c`.
FirstTruthy(values) ==
    IF \E i \in 1..Len(values) : Truthy(values[i])
    THEN values[CHOOSE i \in 1..Len(values) :
                    Truthy(values[i]) /\ \A j \in 1..(i - 1) : ~Truthy(values[j])]
    ELSE values[Len(values)]

\* _map_to_dto(data, url, listing_id), lines 699-782: the record, or Raised.
\* The generated listings carry a location, an address and a localized
\* status; price, size, media and gallery are absent.
map_to_dto(listing, link, listing_id) ==
    IF ~IsDict(listing) \/ ~IsDict(Get(Val(listing), "location", PyDict(<<>>))) THEN Raised
    ELSE DbDTO([source_name |-> PyStr(<<"compass">>),
                listing_id |-> listing_id,
                listing_link |-> link,
                listing_type |-> PyStr(<<"sale">>),
                listing_status |-> FirstTruthy(<<Get(Val(listing), "localizedStatus", PyNone),
                                                 PyStr(<<"Available">>)>>),
                address |-> FirstTruthy(<<Get(Val(Get(Val(listing), "location", PyDict(<<>>))),
                                              "prettyAddress", PyNone),
                                          get_val(listing, <<"address", ".", "prettyAddress">>, PyNone),
                                          PyStr(<<"Address not found">>)>>),
                building_number |-> PyNone,
                street_name |-> PyNone,
                unit_number |-> PyNone,
                city |-> PyNone,
                state |-> PyNone,
                zipcode |-> PyNone,
                sale_price |-> PyNone,
                lease_price |-> PyNone,
                size |-> PyNone,
                photos |-> PyList(<<>>),
                brochure_pdf |-> PyNone])

\* lines 670-676: the try block around _map_to_dto.
MappedOrNone(mapped) == IF IsDto(mapped) THEN mapped ELSE PyNone

\* lines 664-676: what parse_listing does with the result of
\* _find_listing_data, which is called outside the try block.
ListingOfFound(found, link) ==
    IF IsRaised(found) THEN Raised
    ELSE IF ~Truthy(found) THEN PyNone
    ELSE MappedOrNone(map_to_dto(found, PyStr(link), PyStr(PathId(link))))

\* lines 658-676: what parse_listing does with the extracted data.
ListingOfData(data, link) ==
    IF ~Truthy(data) THEN PyNone
    ELSE ListingOfFound(find_listing_data(data), link)

\* parse_listing(url), lines 639-676, for a url whose page has the script
\* text given (none where get_page_source gives no html): the record, None,
\* or Raised where an exception leaves the method.
parse_listing(script_text, link) ==
    IF script_text = <<>> THEN PyNone
    ELSE ListingOfData(CompassParser_extract_initial_data(script_text), link)

\* How many listing urls the search gives at most.
MaxUrls == 2

Location1 == PyDict(<<Entry("prettyAddress", PyStr(<<"1 Main St, Springfield">>))>>)

\* What the parsed __INITIAL_DATA__ of a listing page can be.
RunTrees ==
    { PyDict(<<Entry("listingRelation", PyDict(<<Entry("listing", PyDict(<<Entry("location", Location1)>>))>>))>>),
      PyDict(<<Entry("listingRelation", PyDict(<<Entry("listing", PyDict(<<Entry("location", PyNone)>>))>>))>>),
      PyDict(<<Entry("listingRelation", PyDict(<<>>))>>),
      PyDict(<<Entry("listingRelation", PyNone)>>),
      PyDict(<<Entry("listingRelation", PyInt(5))>>),
      PyDict(<<Entry("listingRelation", PyStr(<<"x">>))>>),
      PyDict(<<Entry("listingRelation", PyList(<<PyStr(<<"listing">>)>>))>>),
      PyDict(<<Entry("listing", PyDict(<<Entry("address", Location1)>>))>>),
      PyDict(<<Entry("listing", PyStr(<<"x">>))>>),
      PyDict(<<Entry("props", PyDict(<<Entry("listingIdSHA", PyStr(<<"abc123">>))>>))>>),
      PyDict(<<Entry("x", PyInt(1))>>) }

\* The script text of a listing page, and a page that did not load.
RunPages == {<<W, M, " ", "=", " ">> \o Dumps(t) \o <<";">> : t \in RunTrees} \cup {<<>>}

InitRun ==
    /\ pc = "run"
    /\ TextIdle
    /\ TreeIdle
    /\ ListingIdle
    /\ BatchIdle
    /\ AgentIdle
    /\ SaveIdle
    /\ PageIdle
    /\ urls \in SeqsUpTo(RunPages, MaxUrls)
    /\ visited = 0
    /\ results = <<>>

\* One pass of the loop, lines 1293-1300: a record is appended, nothing is,
\* or the exception of parse_listing leaves run through its finally clause.
ParseListing ==
    /\ pc = "run"
    /\ visited < Len(urls)
    /\ LET parsed_dto == parse_listing(urls[visited + 1], ListingUrl) IN
          /\ pc' = IF IsRaised(parsed_dto) THEN "run_raised" ELSE "run"
          /\ results' = IF IsDto(parsed_dto) THEN Append(results, visited + 1) ELSE results
    /\ visited' = visited + 1
    /\ UNCHANGED <<urls, textVars, treeVars, listingVars, batchVars, agentVars, saveVars, pageVars>>

\* line 1303: return results
RunReturns ==
    /\ pc = "run"
    /\ visited = Len(urls)
    /\ pc' = "run_returned"
    /\ UNCHANGED <<textVars, treeVars, listingVars, batchVars, agentVars, runVars, saveVars, pageVars>>

NextRun == ParseListing \/ RunReturns

SpecRun == InitRun /\ [][NextRun]_vars

\* C20: whatever the pages hold, no exception leaves run; it returns after
\* the loop has been through every url, with a record for exactly the urls
\* whose page gives one.
C20_RunGoesOn ==
    /\ pc # "run_raised"
    /\ pc = "run_returned" =>
          /\ visited = Len(urls)
          /\ \A t \in 1..Len(urls) :
                IsDto(parse_listing(urls[t], ListingUrl)) <=> (\E n \in 1..Len(results) : results[n] = t)

\* The pages whose 'listingRelation' takes no `in` or no subscript.
RaisingPages ==
    { <<W, M, " ", "=", " ">> \o Dumps(PyDict(<<Entry("listingRelation", v)>>)) \o <<";">> :
        v \in {PyNone, PyInt(5), PyList(<<PyStr(<<"listing">>)>>)} }

\* Over pages whose 'listingRelation', if any, is a mapping or a string
\* without 'listing', run never raises and its result is as C20 says: a
\* listing that fails inside the try block of parse_listing (its location
\* is None, or it is no mapping) is skipped.
C20_GoesOnOverMappings ==
    (\A t \in 1..Len(urls) : urls[t] \notin RaisingPages) => C20_RunGoesOn

----------------------------------------------------------------------------
(* Liveness of a batch (SpecBatchFair)                                     *)

\* Where task t is, for the tasks the batch has.
At(t) == IF t \in DOMAIN tasks THEN tasks[t].at ELSE "none"

\* The requests task t has sent so far.
RequestsSent(t) == IF tasks[t].at = "acquire" THEN 0 ELSE tasks[t].attempt + 1

\* C21: in a batch where every request returns and the tasks are scheduled
\* fairly, every task ends (with a record or with none) after at most
\* max_retries = 3 requests, a task that waits for a permit gets one, and
\* parse_listings_async returns.
C21_BatchLiveness ==
    /\ [](\A t \in DOMAIN tasks : RequestsSent(t) <= max_retries)
    /\ \A t \in 1..MaxListings : (At(t) = "acquire") ~> (At(t) = "get")
    /\ \A t \in 1..MaxListings : (At(t) = "get") ~> (At(t) = "done")
    /\ (pc = "gather") ~> (pc = "returned")

\* A batch with more urls than permits, where every task failed after its
\* third request, has returned.
C21_Witness ==
    /\ pc = "returned"
    /\ variant = "compass"
    /\ Len(tasks) > concurrency
    /\ \A t \in DOMAIN tasks : RequestsSent(t) = max_retries /\ tasks[t].result = "none"

----------------------------------------------------------------------------
(* Specification SpecGather: asyncio.gather over the tasks of a batch and  *)
(* the loop over its results (compas/test.py 1116-1129, property/test.py   *)
(* 418-433, members_moodys.py 814-830).  What a task does before it ends   *)
(* is left to SpecBatch; here each task ends at some time with a record    *)
(* or with none, and the rank at which it ended is kept.                   *)

\* A task gather has started; order: the rank at which the task ended
\* among the tasks of the batch (0 while it has not).
Started == [at |-> "get", attempt |-> 0, result |-> "pending", order |-> 0]

InitGather ==
    /\ pc = "gather"
    /\ TextIdle
    /\ TreeIdle
    /\ ListingIdle
    /\ AgentIdle
    /\ RunIdle
    /\ SaveIdle
    /\ PageIdle
    /\ variant \in Variants
    /\ concurrency = 0
    /\ semaphore = 0
    /\ \E n \in 0..MaxListings : tasks = [t \in 1..n |-> Started]
    /\ parsed_listings = <<>>

\* Task t ends, after any of the others: its coroutine returns a record or
\* None.
Ends(t) ==
    /\ pc = "gather"
    /\ tasks[t].at = "get"
    /\ \E outcome \in {"dto", "none"} :
          tasks' = [tasks EXCEPT ![t].at = "done", ![t].result = outcome,
                                 ![t].order = Finished(tasks) + 1]
    /\ UNCHANGED <<pc, variant, concurrency, semaphore, parsed_listings, textVars, treeVars, listingVars, agentVars, runVars, saveVars, pageVars>>

NextGather ==
    \/ \E t \in DOMAIN tasks : Ends(t)
    \/ GatherReturns

SpecGather == InitGather /\ [][NextGather]_vars

\* C22: whatever the order in which the tasks ended, the returned list
\* names urls of the batch whose own task gave a record, in the order in
\* which the urls were submitted: outcome i of the gathered batch is that
\* of listing_urls[i].
C22_ResultsByPosition ==
    pc = "returned" =>
        /\ \A t \in DOMAIN tasks :
              (tasks[t].result = "dto") <=> (\E n \in DOMAIN parsed_listings : parsed_listings[n] = t)
        /\ \A n, m \in DOMAIN parsed_listings :
              n < m => parsed_listings[n] < parsed_listings[m]

\* A batch has returned two records whose tasks ended in the opposite
\* order of their urls.
C22_Witness ==
    /\ pc = "returned"
    /\ Len(parsed_listings) >= 2
    /\ \E a, b \in DOMAIN tasks :
          /\ a < b
          /\ tasks[a].result = "dto"
          /\ tasks[b].result = "dto"
          /\ tasks[a].order > tasks[b].order

----------------------------------------------------------------------------
(* Specification SpecSave: the save counter of RwholmesParser under the    *)
(* concurrent parse_listing tasks of run (members_moodys.py 706-739).      *)
(* A task is suspended only in `await self.get_listing_html(url)`; what    *)
(* follows, _save_html_if_needed included, runs without suspension.        *)

\* The largest save_html_every of the generated parsers.
MaxEvery == 2

\* A parse_listing task that awaits its html; seen: the value html_counter
\* had when the task was last suspended.
Fetching == [at |-> "get_html", html |-> "pending", seen |-> 0]

\* line 708: self.html_counter += 1, read and written with no suspension
\* between.  A counter written from the value read before the await.
incremented_from_seen(current, seen) == seen + 1
incremented(current, seen) == current + 1

\* line 710
selected(counter, every) == counter % every = 0

InitSave ==
    /\ pc = "gather"
    /\ TextIdle
    /\ TreeIdle
    /\ ListingIdle
    /\ AgentIdle
    /\ RunIdle
    /\ PageIdle
    /\ variant = "rwholmes"
    /\ concurrency = 0
    /\ semaphore = 0
    /\ parsed_listings = <<>>
    /\ \E n \in 0..MaxListings : tasks = [t \in 1..n |-> Fetching]
    /\ html_counter = 0
    /\ save_html_every \in 1..MaxEvery
    /\ saved = <<>>

\* lines 731-739 and 706-723: the html arrives, the counter is advanced
\* and the page is written to a file when the counter says so; the task
\* goes on to its return.
HtmlFetched(t) ==
    /\ pc = "gather"
    /\ tasks[t].at = "get_html"
    /\ LET counter == incremented(html_counter, tasks[t].seen) IN
          /\ html_counter' = counter
          /\ saved' = IF selected(counter, save_html_every) THEN Append(saved, counter) ELSE saved
    /\ tasks' = [u \in DOMAIN tasks |->
                    IF u = t THEN [at |-> "done", html |-> "html", seen |-> html_counter']
                    ELSE tasks[u]]
    /\ UNCHANGED <<pc, save_html_every, variant, concurrency, semaphore, parsed_listings, textVars, treeVars, listingVars, agentVars, runVars, pageVars>>

\* lines 731-733: get_listing_html gave None (the request failed, or the
\* page was empty); the task returns None.
HtmlMissing(t) ==
    /\ pc = "gather"
    /\ tasks[t].at = "get_html"
    /\ tasks' = [tasks EXCEPT ![t].at = "done", ![t].html = "none", ![t].seen = html_counter]
    /\ UNCHANGED <<pc, saveVars, variant, concurrency, semaphore, parsed_listings, textVars, treeVars, listingVars, agentVars, runVars, pageVars>>

\* members_moodys.py line 817: gather returns.
BatchDone ==
    /\ pc = "gather"
    /\ \A t \in DOMAIN tasks : tasks[t].at = "done"
    /\ pc' = "returned"
    /\ UNCHANGED <<saveVars, batchVars, textVars, treeVars, listingVars, agentVars, runVars, pageVars>>

NextSave ==
    \/ \E t \in DOMAIN tasks : HtmlFetched(t)
    \/ \E t \in DOMAIN tasks : HtmlMissing(t)
    \/ BatchDone

SpecSave == InitSave /\ [][NextSave]_vars

\* The listings whose html has been fetched so far.
FetchedSoFar == Cardinality({t \in DOMAIN tasks : tasks[t].html = "html"})

\* C23: under every interleaving of the tasks html_counter never goes
\* down, it equals the number of listings whose html has been fetched (K
\* once the batch is done), and the pages written are those at which the
\* counter was a multiple of save_html_every: floor(K / save_html_every)
\* of them, at the values save_html_every, 2 * save_html_every, ...
C23_NoLostUpdate ==
    /\ [](pc \in {"gather", "returned"} =>
            /\ html_counter = FetchedSoFar
            /\ Len(saved) = html_counter \div save_html_every
            /\ \A k \in DOMAIN saved : saved[k] = k * save_html_every)
    /\ [][html_counter' >= html_counter]_vars

\* A batch is done where a task that was started later got its html first,
\* one listing gave no html, and a page was written.
C23_Witness ==
    /\ pc = "returned"
    /\ Len(tasks) >= 3
    /\ FetchedSoFar = 2
    /\ saved # <<>>
    /\ \E a, b \in DOMAIN tasks :
          a < b /\ tasks[a].html = "html" /\ tasks[b].html = "html" /\ tasks[a].seen > tasks[b].seen

----------------------------------------------------------------------------
(* Where extract_json_from_text takes the object from (Spec)               *)

\* C24: when the marker occurs, the returned substring starts at a
\* position after the marker (the scan starts behind an "=" that follows
\* the marker), and when no "=" follows the marker the result is None.
C24_ObjectAfterMarker ==
    (pc = "json_str" /\ Find(text, start_marker, 0) # -1) =>
        LET marker_end == Find(text, start_marker, 0) + Len(start_marker) IN
            /\ Find(text, <<"=">>, marker_end) = -1 => json_str = PyNone
            /\ IsStr(json_str) => ObjectStart(text, start_marker) >= marker_end

\* With an "=" after the marker the scan starts behind it, so what is
\* returned starts after the marker.
C24_AfterMarkerWithEquals ==
    (pc = "json_str" /\ Find(text, start_marker, 0) # -1
        /\ Find(text, <<"=">>, Find(text, start_marker, 0)) # -1 /\ IsStr(json_str))
        => ObjectStart(text, start_marker) >= Find(text, start_marker, 0) + Len(start_marker)

----------------------------------------------------------------------------
(* The assembled address and its separators                                *)

\* The segments of a text between its commas are all non-empty: the text
\* neither starts nor ends with a separator and no two separators follow
\* each other with nothing but blanks between them.
NoEmptySegment(s) ==
    /\ s # <<>>
    /\ s[1] # ","
    /\ s[Len(s)] # ","
    /\ \A i \in 1..Len(s) :
          s[i] = "," =>
              /\ i < Len(s)
              /\ s[i + 1] # ","
              /\ (s[i + 1] = " " => (i + 1 < Len(s) /\ s[i + 2] # ","))

\* C25: when prettyAddress is absent and extract_listing_data returns a
\* record for a location with some component given, the assembled address
\* has no leading separator and no empty segment, whichever subset of the
\* components is present.
C25_NoLeadingSeparator ==
    (/\ pc = "dto"
     /\ IsDto(dto)
     /\ ~HasKey(InputLocation, <<"prettyAddress">>)
     /\ GivenComponents # {}) =>
        /\ IsStr(Val(dto).address)
        /\ NoEmptySegment(Val(Val(dto).address))

----------------------------------------------------------------------------
(* Specification SpecPages: the pagination loop of get_listings_from_api   *)
(* (compas/compass.py).  Each step is one pass of the while loop: the      *)
(* request, the answer the server gives to it and everything the loop      *)
(* does with that answer.                                                  *)

MaxResults == 3
MaxPerPage == 3
MaxApiPages == 3
MaxTotal == 2

\* line 207: 50 in the source, scaled to the size of the generated answers.
num_per_page == MaxPerPage

\* The items of an answer: with a listing object, with an empty one, with
\* none, and an item that is not a mapping.
ItemWithListing ==
    PyDict(<<[k |-> <<"listing">>,
              v |-> PyDict(<<[k |-> <<"listingIdSHA">>, v |-> PyStr(<<"abc123">>)]>>)]>>)
ItemEmptyListing == PyDict(<<[k |-> <<"listing">>, v |-> PyDict(<<>>)]>>)
ItemNoListing == PyDict(<<>>)
ItemNotMapping == PyNone

\* n times the item x.
ItemsOf(x, n) == [i \in 1..n |-> x]

\* The pages of items: listings first, then items without a listing, then
\* possibly an item that is not a mapping; at most num_per_page items.
ApiPages ==
    {p \in {ItemsOf(ItemWithListing, a) \o ItemsOf(without, b) \o ItemsOf(ItemNotMapping, c) :
                a \in 0..num_per_page, b \in 0..num_per_page, c \in 0..1,
                without \in {ItemNoListing, ItemEmptyListing}} :
        Len(p) <= num_per_page}

\* response.json() of an answer with the expected structure.
ApiAnswer(items, total) ==
    PyDict(<<[k |-> <<"lolResults">>,
              v |-> PyDict(<<[k |-> <<"data">>, v |-> PyList(items)],
                             [k |-> <<"totalItems">>, v |-> PyInt(total)]>>)]>>)

\* An answer without lolResults.
UnexpectedAnswer == PyDict(<<>>)

ApiAnswers ==
    {UnexpectedAnswer}
        \cup {ApiAnswer(items, total) : items \in ApiPages, total \in 0..MaxTotal}

\* line 317: listings_data[:max_results]
FirstOf(collected, limit) ==
    SubSeq(collected, 1, IF Len(collected) < limit THEN Len(collected) ELSE limit)

\* line 323: the handler of line 319 returns the list as it is.
AsCollected(collected, limit) == collected

\* lines 287-290: the loop over the items of a page, up to the first item
\* whose .get raises (AttributeError), if there is one.
RECURSIVE Collect(_, _, _)
Collect(collected, items, i) ==
    IF i > Len(items) THEN [data |-> collected, raised |-> FALSE]
    ELSE IF ~IsDict(items[i]) THEN [data |-> collected, raised |-> TRUE]
    ELSE LET listing == Get(Val(items[i]), "listing", PyDict(<<>>))
         IN Collect(IF Truthy(listing) THEN Append(collected, listing) ELSE collected,
                    items, i + 1)

\* line 304, with the pages from MaxApiPages on taken as one.
NextPage(p) == IF p < MaxApiPages THEN p + 1 ELSE p

\* line 273: has the answer the expected structure?
Expected(data) ==
    /\ HasKey(Val(data), <<"lolResults">>)
    /\ HasKey(Val(Lookup(Val(data), <<"lolResults">>)), <<"data">>)

InitPages ==
    /\ pc = "loop"
    /\ TextIdle
    /\ TreeIdle
    /\ ListingIdle
    /\ BatchIdle
    /\ AgentIdle
    /\ RunIdle
    /\ SaveIdle
    /\ max_results \in 0..MaxResults
    /\ page = 0
    /\ listings = <<>>
    /\ listings_data = <<>>
    /\ returned = <<>>

\* lines 210, 317: the loop's condition is false, or a break left the
\* loop: the first max_results listings are returned.
Returns(collected) ==
    /\ pc' = "returned"
    /\ returned' = FirstOf(collected, max_results)

\* lines 319-323: the handler of an unexpected exception returns the list.
ReturnsFromHandler(collected) ==
    /\ pc' = "returned"
    /\ returned' = AsCollected(collected, max_results)

\* line 210 with nothing to fetch.
NothingToFetch ==
    /\ pc = "loop"
    /\ ~(Len(listings_data) < max_results)
    /\ Returns(listings_data)
    /\ UNCHANGED <<max_results, page, listings, listings_data>>
    /\ UNCHANGED <<textVars, treeVars, listingVars, batchVars, agentVars, runVars, saveVars>>

\* lines 262-271, 309-314: the request fails, the status is an error or the
\* body is not JSON: the loop is left.
RequestFails ==
    /\ pc = "loop"
    /\ Len(listings_data) < max_results
    /\ Returns(listings_data)
    /\ UNCHANGED <<max_results, page, listings, listings_data>>
    /\ UNCHANGED <<textVars, treeVars, listingVars, batchVars, agentVars, runVars, saveVars>>

\* lines 273-275: an answer without lolResults / data leaves the loop.
AnswerUnexpected(data) ==
    /\ pc = "loop"
    /\ Len(listings_data) < max_results
    /\ ~Expected(data)
    /\ Returns(listings_data)
    /\ UNCHANGED <<max_results, page, listings, listings_data>>
    /\ UNCHANGED <<textVars, treeVars, listingVars, batchVars, agentVars, runVars, saveVars>>

\* lines 277-304: a page of items.
AnswerPage(data) ==
    /\ pc = "loop"
    /\ Len(listings_data) < max_results
    /\ Expected(data)
    /\ LET lol == Val(Lookup(Val(data), <<"lolResults">>))
           items == Val(Lookup(lol, <<"data">>))
           total_items == Val(Get(lol, "totalItems", PyInt(0)))
           after == Collect(listings_data, items, 1)
       IN /\ listings' = items
          /\ IF items = <<>>
             THEN /\ listings_data' = listings_data
                  /\ page' = page
                  /\ Returns(listings_data)
             ELSE /\ listings_data' = after.data
                  /\ IF after.raised
                     THEN /\ page' = page
                          /\ ReturnsFromHandler(after.data)
                     ELSE IF \/ Len(items) < num_per_page
                             \/ Len(after.data) >= max_results
                             \/ (total_items > 0 /\ Len(after.data) >= total_items)
                     THEN /\ page' = page
                          /\ Returns(after.data)
                     ELSE /\ page' = NextPage(page)
                          /\ UNCHANGED <<pc, returned>>
    /\ UNCHANGED max_results
    /\ UNCHANGED <<textVars, treeVars, listingVars, batchVars, agentVars, runVars, saveVars>>

NextPages ==
    \/ NothingToFetch
    \/ RequestFails
    \/ \E data \in ApiAnswers : AnswerUnexpected(data)
    \/ \E data \in ApiAnswers : AnswerPage(data)

SpecPages == InitPages /\ [][NextPages]_vars

\* C26: the list get_listings_from_api returns never has more than
\* max_results entries, whichever way the call ends, the handler of an
\* unexpected exception included.
C26_AtMostMaxResults ==
    (pc = "returned") => Len(returned) <= max_results

\* The calls that end at a break or at the loop's condition keep the limit.
C26_BreakKeepsLimit ==
    [][(pc' = "returned" /\ Len(returned') > max_results) =>
          (\E i \in 1..Len(listings') : ~IsDict(listings'[i]))]_vars

\* A call came back from a break with more listings collected than
\* max_results and returned max_results of them.
C26_WitnessSliced ==
    /\ pc = "returned"
    /\ Len(listings_data) > max_results
    /\ Len(returned) = max_results

----------------------------------------------------------------------------
(* Termination of the pagination loop                                      *)

\* The loop goes on by itself: the next request is sent one second after
\* the last answer (time.sleep(1), line 307) and the request has a timeout
\* (line 267).  What the server answers is not constrained.
SpecPagesFair == SpecPages /\ WF_vars(NextPages)

\* C28: the pagination loop of get_listings_from_api terminates whatever
\* the server answers: the call returns after finitely many requests.
C28_PaginationTerminates == <>(pc = "returned")

\* While the loop goes on, each request asks for the page after the last
\* one: the start offsets page * num_per_page increase strictly (the pages
\* from MaxApiPages on are taken as one).
C28_OffsetsIncrease ==
    [][(pc = "loop" /\ pc' = "loop") =>
          (page' * num_per_page > page * num_per_page \/ page = MaxApiPages)]_vars

\* The loop is past its MaxApiPages-th request with nothing collected: every
\* page so far was full and none of its items had a listing.
C28_FullPagesWithoutListings ==
    /\ pc = "loop"
    /\ page = MaxApiPages
    /\ listings_data = <<>>
    /\ Len(listings) = num_per_page

----------------------------------------------------------------------------
(* The first request of get_all_listing_links_async fails                  *)

\* C27: when the first request of get_all_listing_links_async raises, times
\* out or is answered with an error status, the call returns (an empty
\* list) and does not raise.
C27_FirstFailureReturnsEmpty ==
    (variant = "first_failed") => (pc = "links_returned" /\ parsed_listings = <<>>)

\* Once the first answer has been read, the call does not raise.
C27_NoRaiseAfterFirstAnswer ==
    (variant # "first_failed") => pc # "raised"

----------------------------------------------------------------------------
(* The details list and the number of entries it becomes                   *)

\* C29: the conversion of a details list to a mapping loses no item: the
\* details of a record made from a list of n items are a mapping of exactly
\* n entries, also when two items have the same 'name' or the name of one
\* is the positional key 'item_{i}' of another.
C29_NoItemLost ==
    (/\ pc = "dto" /\ IsDto(dto)
     /\ HasKey(InputListing, <<"detailedInfo">>)
     /\ IsDict(Lookup(InputListing, <<"detailedInfo">>))
     /\ \/ HasKey(Val(Lookup(InputListing, <<"detailedInfo">>)), <<"listingDetails">>)
        \/ HasKey(Val(Lookup(InputListing, <<"detailedInfo">>)), <<"keyDetails">>)
     /\ IsList(InputDetails)) =>
        /\ IsDict(Val(dto).listing_details)
        /\ Len(Val(Val(dto).listing_details)) = Len(Val(InputDetails))

\* No item is lost when the keys of the items differ from each other.
C29_DistinctKeysKept ==
    (/\ pc = "dto" /\ IsDto(dto)
     /\ HasKey(InputListing, <<"detailedInfo">>)
     /\ IsDict(Lookup(InputListing, <<"detailedInfo">>))
     /\ \/ HasKey(Val(Lookup(InputListing, <<"detailedInfo">>)), <<"listingDetails">>)
        \/ HasKey(Val(Lookup(InputListing, <<"detailedInfo">>)), <<"keyDetails">>)
     /\ IsList(InputDetails)
     /\ \A i, j \in 1..Len(Val(InputDetails)) :
           i # j => KeyOfItem(Val(InputDetails), i) # KeyOfItem(Val(InputDetails), j)) =>
        /\ IsDict(Val(dto).listing_details)
        /\ Len(Val(Val(dto).listing_details)) = Len(Val(InputDetails))

----------------------------------------------------------------------------
(* add_agent: the first fragment of a name wins                            *)

AgentFields == {"title", "phone_primary", "photo_url", "social_media"}

\* The field of a record, by its name.
FieldOf(agent, field) ==
    CASE field = "title" -> agent.title
      [] field = "phone_primary" -> agent.phone_primary
      [] field = "photo_url" -> agent.photo_url
      [] field = "social_media" -> agent.social_media

\* The argument of add_agent that goes to the field.
GivenFor(f, field) ==
    CASE field = "title" -> f.title
      [] field = "phone_primary" -> f.phone
      [] field = "photo_url" -> f.photo_url
      [] field = "social_media" -> f.link

\* The add_agent call with fragment f took the agents dict from d to e as
\* the first-wins rule says.
FirstWins(d, f, e) ==
    IF ~Truthy(f.name) THEN e = d
    ELSE IF ~HasKey(d, NormalizedName(f))
    THEN /\ Len(e) = Len(d) + 1
         /\ SubSeq(e, 1, Len(d)) = d
         /\ e[Len(e)].k = NormalizedName(f)
         /\ e[Len(e)].v.name = PyStr(Strip(Val(f.name)))
    ELSE /\ Len(e) = Len(d)
         /\ \A i \in DOMAIN d :
               /\ e[i].k = d[i].k
               /\ e[i].v.name = d[i].v.name
               /\ d[i].k # NormalizedName(f) => e[i].v = d[i].v
               /\ \A field \in AgentFields :
                     /\ Truthy(FieldOf(d[i].v, field)) =>
                           FieldOf(e[i].v, field) = FieldOf(d[i].v, field)
                     /\ FieldOf(e[i].v, field) # FieldOf(d[i].v, field) =>
                           /\ d[i].k = NormalizedName(f)
                           /\ Truthy(GivenFor(f, field))
                           /\ FieldOf(e[i].v, field) = PyStr(Strip(Val(GivenFor(f, field))))

\* C30: add_agent is first-wins.  A call with no name leaves the agents
\* dict as it is; a call for a new key adds one record; a call for a key
\* that is there fills only the fields of its record that are empty and
\* leaves the fields that are set, the stored name and the other records
\* unchanged; a second call with the same fragment changes nothing.
C30_FirstWins ==
    [][Len(fragments') = Len(fragments) + 1 =>
          LET f == fragments'[Len(fragments')]
          IN /\ FirstWins(agents, f, agents')
             /\ add_agent(agents', f) = agents']_vars

\* A second fragment for a key that is there, with another spelling of the
\* name, a blank phone and a title, left the stored name and phone as they
\* were and filled the title.
C30_Witness ==
    /\ Len(fragments) = 2
    /\ fragments[1].name = PyStr(<<"J", "o">>)
    /\ fragments[1].phone = PyStr(<<"(508) 651-9017">>)
    /\ fragments[1].title = PyNone
    /\ fragments[2].name = PyStr(<<" ", "j", "O", " ">>)
    /\ fragments[2].phone = PyStr(<<" ">>)
    /\ fragments[2].title = PyStr(<<" ", "VP", " ">>)
    /\ Len(agents) = 1
    /\ agents[1].v.name = PyStr(<<"J", "o">>)
    /\ agents[1].v.phone_primary = PyStr(<<"(508) 651-9017">>)
    /\ agents[1].v.title = PyStr(<<"VP">>)

\* A call with no name after a record was made left the dict as it was.
C30_WitnessNoName ==
    /\ Len(fragments) = 2
    /\ Truthy(fragments[1].name)
    /\ ~Truthy(fragments[2].name)
    /\ Len(agents) = 1

====
